---- MODULE Spec2Model ----
(***************************************************************************)
(* Model of langchain_mcp_toolkit.services.server_service.MCPServerService *)
(* : the server control surface (start / stop / get_url / add_tool /       *)
(* add_resource / add_prompt) over one server handle, and the tool-code    *)
(* compilation step (_compile_tool_code).                                  *)
(*                                                                         *)
(* Strings the code builds with f-strings are modelled as the sequence of  *)
(* their fragments, e.g. f"http://{host}:{port}" is                        *)
(* <<"http://", host, ":", port>>.                                         *)
(***************************************************************************)
EXTENDS Integers, Sequences, FiniteSets, TLC

(***************************************************************************)
(* Bounds of the model.                                                    *)
(***************************************************************************)
NumPorts == 2
MaxLines == 2
MaxVal == 2

(***************************************************************************)
(* Program constants.                                                      *)
(***************************************************************************)
DefaultHost == "localhost"
DefaultPort == 8000
IndentWidth == 4

Hosts == {DefaultHost, "0.0.0.0"}
Ports == DefaultPort .. (DefaultPort + NumPorts - 1)

(***************************************************************************)
(* The server handle (ServerProtocol): every primitive either returns or   *)
(* raises an exception of the handle's own type.                           *)
(***************************************************************************)
ExcTypes == {"ConnectionError", "ValueError"}
ExcMsgs == {"handle failed"}
HandleExceptions == [type : ExcTypes, msg : ExcMsgs]

Returned(v) == [kind |-> "ok", ret |-> v]
Raised(e) == [kind |-> "raise", exc |-> e]

NoneValue == <<"None">>
\* Outcomes of a primitive declared "-> None".
VoidOutcomes == {Returned(NoneValue)} \cup {Raised(e) : e \in HandleExceptions}
\* Outcomes of ServerProtocol.get_url: a URL string, possibly empty.
HandleUrls == {<<>>, <<"http://handle.example/sse">>}
UrlOutcomes == {Returned(u) : u \in HandleUrls} \cup {Raised(e) : e \in HandleExceptions}

HandleCall(prim, args, outcome) == [prim |-> prim, args |-> args, outcome |-> outcome]

(***************************************************************************)
(* What an operation hands back to its caller.                             *)
(***************************************************************************)
Return(op, args, v) == [op |-> op, args |-> args, kind |-> "return", val |-> v]
\* raise RuntimeError(f"{prefix}{str(e)}") from e
RaiseRuntimeError(op, args, prefix, e) ==
    [op |-> op, args |-> args, kind |-> "raise",
     val |-> <<"RuntimeError", <<prefix, e.msg>>, e>>]

Url(h, p) == <<"http://", h, ":", p>>
NotRunningStatus == <<"Server is ", "not currently running">>
NotRunningError ==
    <<"Error: Server is ", "not currently running", ", please start the server first">>

VARIABLES
    is_running,     \* MCPServerService._is_running
    host,           \* MCPServerService._host
    port,           \* MCPServerService._port
    server_name,    \* the handle's name attribute (self._server.name)
    calls,          \* primitives of the handle invoked by the last operation
    compiles,       \* number of _compile_tool_code runs in the last operation
    result,         \* what the last operation handed to its caller
    started_with,   \* <<host, port>> passed to the last start that succeeded
    tool_input,     \* the tool name and code under study (fixed in a behaviour)
    delivered,      \* per name, the definition the handle accepted last
    replaced,       \* the definition the last operation's registration displaced
    tables,         \* the symbol tables (sandbox dicts) of the callables delivered
    client,         \* MCPClientService.client
    is_connected,   \* MCPClientService._is_connected
    is_multi_client,\* MCPClientService._is_multi_client
    phase,          \* what create, connect and disconnect completed last
    awaited,        \* the async_* method or the tool's _run the last step entered through
    mode,           \* MCPToolkit.mode
    factory,        \* MCPToolkit.factory: the two services it holds
    coroutines,     \* the connect/disconnect coroutines entered, in order of entry
    made            \* the tools the factory has produced, each with the service it holds

client_vars == <<client, is_connected, is_multi_client, phase>>
vars == <<is_running, host, port, server_name, calls, compiles, result,
          started_with, tool_input, delivered, replaced, tables, client_vars,
          awaited, mode, factory, coroutines, made>>

NoResult == [op |-> "init", args |-> <<>>, kind |-> "return", val |-> <<>>]

\* a mapping from names that holds nothing, and a mapping after an assignment
Nothing == [n \in {} |-> {}]
Put(f, k, v) == [n \in DOMAIN f \cup {k} |-> IF n = k THEN v ELSE f[n]]
\* the handle (no code of it is part of the service) holds, per name, the
\* definition it accepted last
NothingDelivered == [tools |-> Nothing, resources |-> Nothing, prompts |-> Nothing]
\* what a registration under the name displaces
Displaced(held, name) == IF name \in DOMAIN held THEN <<"def", held[name]>> ELSE NoneValue
\* self.client = None
NoClient == <<"None">>
\* the last step drove no coroutine of an async_* method of the server
NoCoroutine == [name |-> "None", given |-> <<>>]
\* an operation of a service entered by its own name: through no async_*
\* method, and the toolkit is not touched
Direct(A) == A /\ awaited' = NoCoroutine /\ UNCHANGED <<mode, factory, coroutines, made>>

(***************************************************************************)
(* MCPToolkit and the two services its factory holds.  A service instance  *)
(* is told from another by a serial number: init_client_service and        *)
(* init_server_service build a new instance each time they run.            *)
(***************************************************************************)
MaxInstances == 3
Modes == {"client", "server", "client_and_server"}
ClientModes == {"client", "client_and_server"}
ServerModes == {"server", "client_and_server"}
\* MCPClientService(), MCPServerService(): the instance after the one held
Serial(held) == IF held = NoneValue THEN 1 ELSE held[2] + 1
ClientServiceInstance(held) == <<"MCPClientService", Serial(held)>>
ServerServiceInstance(held) == <<"MCPServerService", Serial(held)>>
\* MCPToolFactory()
NewFactory == [client_service |-> NoneValue, server_service |-> NoneValue]
\* MCPToolFactory.init_client_service / init_server_service
InitClientService(f) ==
    [f EXCEPT !.client_service = ClientServiceInstance(f.client_service)]
InitServerService(f) ==
    [f EXCEPT !.server_service = ServerServiceInstance(f.server_service)]
\* the factories a toolkit is constructed with: the default one, or one whose
\* services its owner has initialised already
GivenFactories == {NewFactory, InitServerService(InitClientService(NewFactory))}

\* MCPToolkit.__init__: the factory after the two tests on the mode
Constructed(m, f) ==
    LET f1 == IF m \in ClientModes THEN InitClientService(f) ELSE f
    IN IF m \in ServerModes THEN InitServerService(f1) ELSE f1

Init ==
    /\ is_running = FALSE
    /\ host = DefaultHost
    /\ port = DefaultPort
    /\ server_name = ""
    /\ calls = <<>>
    /\ compiles = 0
    /\ result = NoResult
    /\ started_with = <<>>
    /\ tool_input = <<>>
    /\ delivered = NothingDelivered
    /\ replaced = NoneValue
    /\ tables = Nothing
    /\ client = NoClient
    /\ is_connected = FALSE
    /\ is_multi_client = FALSE
    /\ phase = "none"
    /\ awaited = NoCoroutine
    /\ coroutines = <<>>
    /\ made = {}
    /\ mode = "client_and_server"
    /\ factory = Constructed(mode, NewFactory)

(***************************************************************************)
(* MCPServerService.start                                                  *)
(***************************************************************************)
\* faulty variant: the URL of the reply is built from the arguments of the call
StartAlreadyRunning_UrlFromArguments(h, p) ==
    /\ result' = Return("start", <<h, p>>,
                        <<"Server is already running: ">> \o Url(h, p))
    /\ calls' = <<>>
    /\ compiles' = 0
    /\ replaced' = NoneValue
    /\ UNCHANGED <<is_running, host, port, server_name, started_with, tool_input,
                 delivered, tables, client_vars>>

\* faulty variant: a start on a running server takes over the new host and port
StartAlreadyRunning_Reconfigures(h, p) ==
    /\ host' = h
    /\ port' = p
    /\ result' = Return("start", <<h, p>>,
                        <<"Server is already running: ">> \o Url(host, port))
    /\ calls' = <<>>
    /\ compiles' = 0
    /\ replaced' = NoneValue
    /\ UNCHANGED <<is_running, server_name, started_with, tool_input,
                 delivered, tables, client_vars>>

\* start, the branch "if self._is_running"
StartAlreadyRunning(h, p) ==
    /\ result' = Return("start", <<h, p>>,
                        <<"Server is already running: ">> \o Url(host, port))
    /\ calls' = <<>>
    /\ compiles' = 0
    /\ replaced' = NoneValue
    /\ UNCHANGED <<is_running, host, port, server_name, started_with, tool_input,
                 delivered, tables, client_vars>>

Start(h, p) ==
    IF is_running
    THEN StartAlreadyRunning(h, p)
    ELSE \E o \in VoidOutcomes :
         /\ host' = h
         /\ port' = p
         /\ server_name' = "mcp-server"
         /\ calls' = <<HandleCall("start", <<h, p>>, o)>>
         /\ compiles' = 0
         /\ replaced' = NoneValue
         /\ IF o.kind = "ok"
            THEN /\ is_running' = TRUE
                 /\ started_with' = <<h, p>>
                 /\ result' = Return("start", <<h, p>>,
                                     <<"Server started at ">> \o Url(h, p))
            ELSE /\ result' = RaiseRuntimeError("start", <<h, p>>,
                                                "Failed to start server: ", o.exc)
                 /\ UNCHANGED <<is_running, started_with>>
         /\ UNCHANGED <<tool_input, delivered, tables, client_vars>>

(***************************************************************************)
(* MCPServerService.stop                                                   *)
(***************************************************************************)
\* faulty variant: stop reaches the handle also when the server is not running
StopNotRunning_CallsHandle ==
    \E o \in VoidOutcomes :
    /\ calls' = <<HandleCall("stop", <<>>, o)>>
    /\ compiles' = 0
    /\ replaced' = NoneValue
    /\ result' = IF o.kind = "ok"
                 THEN Return("stop", <<>>, <<"Server stopped">>)
                 ELSE RaiseRuntimeError("stop", <<>>, "Failed to stop server: ", o.exc)
    /\ UNCHANGED <<is_running, host, port, server_name, started_with, tool_input,
                 delivered, tables, client_vars>>

\* stop, the branch "if not self._is_running"
StopNotRunning ==
    /\ result' = Return("stop", <<>>, NotRunningStatus)
    /\ calls' = <<>>
    /\ compiles' = 0
    /\ replaced' = NoneValue
    /\ UNCHANGED <<is_running, host, port, server_name, started_with, tool_input,
                 delivered, tables, client_vars>>

\* faulty variant: the running flag is cleared before the handle's stop is
\* called, so a stop that fails leaves the server reported as stopped
Stop_ClearsFlagFirst ==
    IF ~is_running
    THEN StopNotRunning
    ELSE \E o \in VoidOutcomes :
         /\ calls' = <<HandleCall("stop", <<>>, o)>>
         /\ compiles' = 0
         /\ replaced' = NoneValue
         /\ is_running' = FALSE
         /\ result' = IF o.kind = "ok"
                      THEN Return("stop", <<>>, <<"Server stopped">>)
                      ELSE RaiseRuntimeError("stop", <<>>,
                                             "Failed to stop server: ", o.exc)
         /\ UNCHANGED <<host, port, server_name, started_with, tool_input,
                 delivered, tables, client_vars>>

Stop ==
    IF ~is_running
    THEN StopNotRunning
    ELSE \E o \in VoidOutcomes :
         /\ calls' = <<HandleCall("stop", <<>>, o)>>
         /\ compiles' = 0
         /\ replaced' = NoneValue
         /\ IF o.kind = "ok"
            THEN /\ is_running' = FALSE
                 /\ result' = Return("stop", <<>>, <<"Server stopped">>)
            ELSE /\ result' = RaiseRuntimeError("stop", <<>>,
                                                "Failed to stop server: ", o.exc)
                 /\ UNCHANGED is_running
         /\ UNCHANGED <<host, port, server_name, started_with, tool_input,
                 delivered, tables, client_vars>>

(***************************************************************************)
(* MCPServerService.get_url                                                *)
(***************************************************************************)
\* faulty variant: the URL is always synthesized, the handle's own URL is dropped
UrlOrSynthesized_AlwaysSynthesized(url) == Url(host, port)

\* return url if url else f"http://{self._host}:{self._port}"
UrlOrSynthesized(url) == IF url # <<>> THEN url ELSE Url(host, port)

GetUrl ==
    /\ IF ~is_running
       THEN /\ result' = Return("get_url", <<>>, NotRunningStatus)
            /\ calls' = <<>>
       ELSE \E o \in UrlOutcomes :
            /\ calls' = <<HandleCall("get_url", <<>>, o)>>
            /\ IF o.kind = "ok"
               THEN result' = Return("get_url", <<>>, UrlOrSynthesized(o.ret))
               ELSE result' = RaiseRuntimeError("get_url", <<>>,
                                                "Failed to get server URL: ", o.exc)
    /\ compiles' = 0
    /\ replaced' = NoneValue
    /\ UNCHANGED <<is_running, host, port, server_name, started_with, tool_input,
                 delivered, tables, client_vars>>

(***************************************************************************)
(* MCPServerService.add_resource / add_prompt                              *)
(***************************************************************************)
ResourceNames == {"cities"}
ResourceContents == {<<"A", "B">>, <<"Hello, {name}!">>}
PromptNames == {"greeting"}
PromptContents == {<<"Hello, {name}!">>}
MorePromptContents == PromptContents \cup {<<"Bye, {name}.">>}
Descriptions == {""}

\* faulty variant: a name the handle already holds is refused
AddResourceRunning_RefusesDuplicate(name, content, description) ==
    IF name \in DOMAIN delivered.resources
    THEN /\ calls' = <<>>
         /\ result' = Return("add_resource", <<name, content, description>>,
                             <<"Error: Resource '", name, "' already exists">>)
         /\ UNCHANGED delivered
         /\ replaced' = NoneValue
    ELSE \E o \in VoidOutcomes :
         /\ calls' = <<HandleCall("add_resource", <<name, content>>, o)>>
         /\ IF o.kind = "ok"
            THEN /\ delivered' = [delivered EXCEPT !.resources = Put(@, name, content)]
                 /\ replaced' = Displaced(delivered.resources, name)
                 /\ result' = Return("add_resource", <<name, content, description>>,
                                     <<"Resource '", name, "' added to server">>)
            ELSE /\ UNCHANGED delivered
                 /\ replaced' = NoneValue
                 /\ result' = RaiseRuntimeError("add_resource",
                                                <<name, content, description>>,
                                                "Failed to add resource: ", o.exc)

\* add_resource, the try block: self._server.add_resource(name, content)
AddResourceRunning(name, content, description) ==
    \E o \in VoidOutcomes :
    /\ calls' = <<HandleCall("add_resource", <<name, content>>, o)>>
    /\ IF o.kind = "ok"
       THEN /\ delivered' = [delivered EXCEPT !.resources = Put(@, name, content)]
            /\ replaced' = Displaced(delivered.resources, name)
            /\ result' = Return("add_resource", <<name, content, description>>,
                                <<"Resource '", name, "' added to server">>)
       ELSE /\ UNCHANGED delivered
            /\ replaced' = NoneValue
            /\ result' = RaiseRuntimeError("add_resource",
                                           <<name, content, description>>,
                                           "Failed to add resource: ", o.exc)

\* faulty variant: add_resource without the check of self._is_running
AddResource_NoRunningCheck(name, content, description) ==
    /\ AddResourceRunning(name, content, description)
    /\ compiles' = 0
    /\ UNCHANGED <<is_running, host, port, server_name, started_with, tool_input,
                 tables, client_vars>>

AddResource(name, content, description) ==
    /\ IF ~is_running
       THEN /\ result' = Return("add_resource", <<name, content, description>>,
                                NotRunningError)
            /\ calls' = <<>>
            /\ UNCHANGED delivered
            /\ replaced' = NoneValue
       ELSE AddResourceRunning(name, content, description)
    /\ compiles' = 0
    /\ UNCHANGED <<is_running, host, port, server_name, started_with, tool_input,
                 tables, client_vars>>

\* faulty variant: the {placeholder} markers are filled in before the content
\* reaches the handle
AddPromptRunning_FillsPlaceholders(name, content, description) ==
    LET filled == [i \in DOMAIN content |->
                      IF content[i] = "Hello, {name}!" THEN "Hello, !"
                      ELSE IF content[i] = "Bye, {name}." THEN "Bye, ."
                      ELSE content[i]]
    IN \E o \in VoidOutcomes :
       /\ calls' = <<HandleCall("add_prompt", <<name, filled>>, o)>>
       /\ IF o.kind = "ok"
          THEN /\ delivered' = [delivered EXCEPT !.prompts = Put(@, name, filled)]
               /\ replaced' = Displaced(delivered.prompts, name)
               /\ result' = Return("add_prompt", <<name, content, description>>,
                                   <<"Prompt '", name, "' added to server">>)
          ELSE /\ UNCHANGED delivered
               /\ replaced' = NoneValue
               /\ result' = RaiseRuntimeError("add_prompt",
                                              <<name, content, description>>,
                                              "Failed to add prompt: ", o.exc)

\* add_prompt, the try block: self._server.add_prompt(name, content)
AddPromptRunning(name, content, description) ==
    \E o \in VoidOutcomes :
    /\ calls' = <<HandleCall("add_prompt", <<name, content>>, o)>>
    /\ IF o.kind = "ok"
       THEN /\ delivered' = [delivered EXCEPT !.prompts = Put(@, name, content)]
            /\ replaced' = Displaced(delivered.prompts, name)
            /\ result' = Return("add_prompt", <<name, content, description>>,
                                <<"Prompt '", name, "' added to server">>)
       ELSE /\ UNCHANGED delivered
            /\ replaced' = NoneValue
            /\ result' = RaiseRuntimeError("add_prompt",
                                           <<name, content, description>>,
                                           "Failed to add prompt: ", o.exc)

\* faulty variant: add_prompt lets the handle's exception through
AddPrompt_NativeException(name, content, description) ==
    /\ IF ~is_running
       THEN /\ result' = Return("add_prompt", <<name, content, description>>,
                                NotRunningError)
            /\ calls' = <<>>
            /\ UNCHANGED delivered
            /\ replaced' = NoneValue
       ELSE \E o \in VoidOutcomes :
            /\ calls' = <<HandleCall("add_prompt", <<name, content>>, o)>>
            /\ IF o.kind = "ok"
               THEN /\ delivered' = [delivered EXCEPT !.prompts = Put(@, name, content)]
                    /\ replaced' = Displaced(delivered.prompts, name)
                    /\ result' = Return("add_prompt", <<name, content, description>>,
                                        <<"Prompt '", name, "' added to server">>)
               ELSE /\ UNCHANGED delivered
                    /\ replaced' = NoneValue
                    /\ result' = [op |-> "add_prompt",
                                  args |-> <<name, content, description>>,
                                  kind |-> "raise",
                                  val |-> <<o.exc.type, <<o.exc.msg>>, o.exc>>]
    /\ compiles' = 0
    /\ UNCHANGED <<is_running, host, port, server_name, started_with, tool_input,
                 tables, client_vars>>

AddPrompt(name, content, description) ==
    /\ IF ~is_running
       THEN /\ result' = Return("add_prompt", <<name, content, description>>,
                                NotRunningError)
            /\ calls' = <<>>
            /\ UNCHANGED delivered
            /\ replaced' = NoneValue
       ELSE AddPromptRunning(name, content, description)
    /\ compiles' = 0
    /\ UNCHANGED <<is_running, host, port, server_name, started_with, tool_input,
                 tables, client_vars>>

(***************************************************************************)
(* Tool code.  A code body is a sequence of physical lines; a line is its  *)
(* leading whitespace (indent) and the text after it.  The model covers a  *)
(* fragment of Python: the line texts of LineTexts.                        *)
(*   ""                        a whitespace-only line                      *)
(*   "pass"                    a statement without effect                  *)
(*   "return len(kwargs)"      calls the global name len                   *)
(*   "return kwargs.get('a')"  uses no global name                         *)
(*   "return open"             reads the global name open (file I/O)       *)
(*   "return ("                a syntax error (parenthesis never closed)   *)
(*   "return '''a"             opens a triple-quoted string literal        *)
(*   "z'''"                    closes a triple-quoted string literal       *)
(***************************************************************************)
LineTexts == {"", "pass", "return len(kwargs)", "return kwargs.get('a')",
              "return open", "return (", "return '''a", "z'''"}
Line(n, t) == [indent |-> n, text |-> t]
Lines == {Line(0, t) : t \in LineTexts} \cup {Line(2, "pass")}

RECURSIVE SeqsUpTo(_, _)
SeqsUpTo(S, n) ==
    IF n = 0 THEN {<<>>}
    ELSE LET shorter == SeqsUpTo(S, n - 1)
         IN shorter \cup {Append(s, x) : s \in {t \in shorter : Len(t) = n - 1}, x \in S}

CodeBodies == SeqsUpTo(Lines, MaxLines)
\* the code bodies the behaviours of Spec register
ServerCodes ==
    {<<Line(0, "return len(kwargs)")>>,
     <<Line(0, "return (")>>}
\* two bodies that write and read a name of the function's own globals
\*   "globals()['hits'] = 1"          binds hits in the symbol table
\*   "return globals().get('hits')"   reads hits from the symbol table
WriteHits == <<Line(0, "globals()['hits'] = 1")>>
ReadHits == <<Line(0, "return globals().get('hits')")>>
IsolationCodes == {WriteHits, ReadHits}
ToolNames == {"echo", "len"}
CodeTypes == {"python", "javascript"}
KwargKeys == {"a", "b"}
Kwargs == UNION {[K -> 1 .. MaxVal] : K \in SUBSET KwargKeys}

\* textwrap.indent(code_str, '    '): the prefix is added to every line that
\* does not consist solely of whitespace.
TextwrapIndent(code) ==
    [i \in DOMAIN code |->
        IF code[i].text = "" THEN code[i]
        ELSE [code[i] EXCEPT !.indent = @ + IndentWidth]]

\* safe_builtins
safe_builtins ==
    {"dict", "list", "tuple", "set", "str", "int", "float", "bool",
     "None", "True", "False", "len", "Exception", "TypeError", "ValueError",
     "print", "range", "enumerate", "zip", "map", "filter", "sum", "min", "max"}
\* names of the builtins module (__builtins__), a representative part
AllBuiltins == safe_builtins \cup {"open", "eval", "exec", "__import__", "globals"}

Builtin(n) == <<"builtin", n>>
Module(n) == <<"module", n>>
Function(n) == <<"function", n>>

\* the namespace _compile_tool_code builds before exec
Sandbox ==
    [n \in (AllBuiltins \cap safe_builtins) \cup {"requests", "json"} |->
        IF n \in {"requests", "json"} THEN Module(n) ELSE Builtin(n)]

\* exec(full_code, sandbox): exec inserts a reference to the builtins module
\* under "__builtins__" when the globals have none, then the def statement
\* binds the function name in the same namespace.
ExecGlobals(name) ==
    [n \in DOMAIN Sandbox \cup {"__builtins__", name} |->
        IF n = name THEN Function(name)
        ELSE IF n = "__builtins__" THEN Module("builtins")
        ELSE Sandbox[n]]

CompileError(type, msg) == [ok |-> FALSE, exc |-> [type |-> type, msg |-> msg]]
Parsed(stmts) == [ok |-> TRUE, stmts |-> stmts]
Stmt(text, pieces) == [text |-> text, str |-> pieces]
Piece(n, t) == [sp |-> n, txt |-> t]

\* Python's tokenizer and parser on the lines of a block whose enclosing
\* statement is indented by st.outer.
RECURSIVE ParseLines(_, _, _)
ParseLines(lines, i, st) ==
    IF i > Len(lines)
    THEN IF st.inStr
         THEN CompileError("SyntaxError", "unterminated triple-quoted string literal")
         ELSE IF st.stmts = <<>>
         THEN CompileError("IndentationError", "expected an indented block")
         ELSE Parsed(st.stmts)
    ELSE LET l == lines[i] IN
         IF st.inStr
         THEN IF l.text = "z'''"
              THEN ParseLines(lines, i + 1,
                       [st EXCEPT !.inStr = FALSE, !.acc = <<>>,
                                  !.stmts = Append(@, Stmt("return '''",
                                               Append(st.acc, Piece(l.indent, "z"))))])
              ELSE IF l.text = "return '''a"
              THEN CompileError("SyntaxError", "invalid syntax")
              ELSE ParseLines(lines, i + 1,
                       [st EXCEPT !.acc = Append(@, Piece(l.indent, l.text))])
         ELSE IF l.text = ""
              THEN ParseLines(lines, i + 1, st)
              ELSE IF st.block = -1 /\ l.indent <= st.outer
              THEN CompileError("IndentationError", "expected an indented block")
              ELSE IF st.block # -1 /\ l.indent > st.block
              THEN CompileError("IndentationError", "unexpected indent")
              ELSE IF st.block # -1 /\ l.indent < st.block
              THEN CompileError("IndentationError",
                                "unindent does not match any outer indentation level")
              ELSE IF l.text = "return ("
              THEN CompileError("SyntaxError", "'(' was never closed")
              ELSE IF l.text = "z'''"
              THEN CompileError("SyntaxError", "invalid syntax")
              ELSE IF l.text = "return '''a"
              THEN ParseLines(lines, i + 1,
                       [st EXCEPT !.inStr = TRUE, !.block = l.indent,
                                  !.acc = <<Piece(0, "a")>>])
              ELSE ParseLines(lines, i + 1,
                       [st EXCEPT !.block = l.indent,
                                  !.stmts = Append(@, Stmt(l.text, <<>>))])

ParseBlock(lines, outer) ==
    ParseLines(lines, 1, [outer |-> outer, block |-> -1, inStr |-> FALSE,
                          acc |-> <<>>, stmts |-> <<>>])

\* MCPServerService._compile_tool_code
\*   full_code = f"def {name}(**kwargs):\n{textwrap.indent(code_str, '    ')}"
\*   exec(full_code, sandbox); return sandbox[name]
CompileToolCode(name, code) ==
    LET p == ParseBlock(TextwrapIndent(code), 0)
    IN IF p.ok
       THEN [ok |-> TRUE,
             fn |-> [fname |-> name, body |-> p.stmts, globals |-> ExecGlobals(name)]]
       ELSE p

(***************************************************************************)
(* Running a compiled callable with keyword arguments.                     *)
(***************************************************************************)
Value(v) == [kind |-> "value", v |-> v]
Throw(type, msg) == [kind |-> "raise", exc |-> [type |-> type, msg |-> msg]]

\* LOAD_GLOBAL: the function's globals first, then the builtins module
\* named by the globals' "__builtins__".
Lookup(nm, globals) ==
    IF nm \in DOMAIN globals \ {"__builtins__"}
    THEN Value(globals[nm])
    ELSE IF "__builtins__" \in DOMAIN globals /\ nm \in AllBuiltins
    THEN Value(Builtin(nm))
    ELSE Throw("NameError", <<"name '", nm, "' is not defined">>)

\* what a run hands back, and the function's globals after it
After(r, globals) == [globals |-> globals] @@ r

RECURSIVE ExecBody(_, _, _, _)
ExecBody(stmts, i, kw, globals) ==
    IF i > Len(stmts) THEN After(Value(NoneValue), globals)
    ELSE LET s == stmts[i] IN
         CASE s.text = "pass" -> ExecBody(stmts, i + 1, kw, globals)
           [] s.text = "return len(kwargs)" ->
                LET f == Lookup("len", globals) IN
                IF f.kind = "raise" THEN After(f, globals)
                ELSE IF f.v = Builtin("len")
                THEN After(Value(<<"int", Cardinality(DOMAIN kw)>>), globals)
                ELSE After(Throw("TypeError",
                           <<"len", "() takes 0 positional arguments but 1 was given">>),
                           globals)
           [] s.text = "return kwargs.get('a')" ->
                IF "a" \in DOMAIN kw THEN After(Value(<<"int", kw["a"]>>), globals)
                ELSE After(Value(NoneValue), globals)
           [] s.text = "return open" ->
                LET f == Lookup("open", globals) IN
                IF f.kind = "raise" THEN After(f, globals)
                ELSE After(Value(<<"object", f.v>>), globals)
           [] s.text = "return '''" -> After(Value(<<"str", s.str>>), globals)
           [] s.text = "globals()['hits'] = 1" ->
                LET f == Lookup("globals", globals) IN
                IF f.kind = "raise" THEN After(f, globals)
                ELSE ExecBody(stmts, i + 1, kw, Put(globals, "hits", <<"int", 1>>))
           [] s.text = "return globals().get('hits')" ->
                LET f == Lookup("globals", globals) IN
                IF f.kind = "raise" THEN After(f, globals)
                ELSE IF "hits" \in DOMAIN globals
                THEN After(Value(globals["hits"]), globals)
                ELSE After(Value(NoneValue), globals)

CallTool(fn, kw) == ExecBody(fn.body, 1, kw, fn.globals)

\* faulty variant: one symbol table serves every compilation
SandboxOf_Shared(name) == "echo"

\* sandbox = {}: the symbol table of a compilation is made for that call; the
\* tables of the callables the handle holds are told apart by the tool name
SandboxOf(name) == name

\* the handle accepted the callable: it holds it under the name, and the
\* callable holds its symbol table
Deliver(name, fn) ==
    /\ delivered' = [delivered EXCEPT
                        !.tools = Put(@, name, [fn |-> fn, table |-> SandboxOf(name)])]
    /\ tables' = Put(tables, SandboxOf(name), fn.globals)
    /\ replaced' = Displaced(delivered.tools, name)

(***************************************************************************)
(* MCPServerService.add_tool                                               *)
(***************************************************************************)
\* faulty variant: a compilation failure is dropped and the confirmation returned
AddTool_SwallowsCompileError(name, description, code, code_type) ==
    LET args == <<name, description, code, code_type>> IN
    /\ IF ~is_running
       THEN /\ result' = Return("add_tool", args, NotRunningError)
            /\ calls' = <<>>
            /\ compiles' = 0
            /\ replaced' = NoneValue
            /\ UNCHANGED <<delivered, tables>>
       ELSE LET c == CompileToolCode(name, code) IN
            /\ compiles' = 1
            /\ IF ~c.ok
               THEN /\ calls' = <<>>
                    /\ UNCHANGED <<delivered, tables>>
                    /\ replaced' = NoneValue
                    /\ result' = Return("add_tool", args,
                                        <<"Tool '", name, "' added to server">>)
               ELSE \E o \in VoidOutcomes :
                    /\ calls' = <<HandleCall("add_tool", <<name, c.fn, description>>, o)>>
                    /\ IF o.kind = "ok"
                       THEN /\ Deliver(name, c.fn)
                            /\ result' = Return("add_tool", args,
                                                <<"Tool '", name, "' added to server">>)
                       ELSE /\ UNCHANGED <<delivered, tables>>
                            /\ replaced' = NoneValue
                            /\ result' = RaiseRuntimeError("add_tool", args,
                                                           "Failed to add tool: ", o.exc)
    /\ UNCHANGED <<is_running, host, port, server_name, started_with, tool_input,
                 client_vars>>

AddTool(name, description, code, code_type) ==
    LET args == <<name, description, code, code_type>> IN
    /\ IF ~is_running
       THEN /\ result' = Return("add_tool", args, NotRunningError)
            /\ calls' = <<>>
            /\ compiles' = 0
            /\ replaced' = NoneValue
            /\ UNCHANGED <<delivered, tables>>
       ELSE LET c == CompileToolCode(name, code) IN
            /\ compiles' = 1
            /\ IF ~c.ok
               THEN /\ calls' = <<>>
                    /\ UNCHANGED <<delivered, tables>>
                    /\ replaced' = NoneValue
                    /\ result' = RaiseRuntimeError("add_tool", args,
                                                   "Failed to add tool: ", c.exc)
               ELSE \E o \in VoidOutcomes :
                    /\ calls' = <<HandleCall("add_tool", <<name, c.fn, description>>, o)>>
                    /\ IF o.kind = "ok"
                       THEN /\ Deliver(name, c.fn)
                            /\ result' = Return("add_tool", args,
                                                <<"Tool '", name, "' added to server">>)
                       ELSE /\ UNCHANGED <<delivered, tables>>
                            /\ replaced' = NoneValue
                            /\ result' = RaiseRuntimeError("add_tool", args,
                                                           "Failed to add tool: ", o.exc)
    /\ UNCHANGED <<is_running, host, port, server_name, started_with, tool_input,
                 client_vars>>

(***************************************************************************)
(* The handle runs the callable it was given by the last add_tool, with    *)
(* keyword arguments.                                                      *)
(***************************************************************************)
Registered ==
    /\ Len(calls) = 1
    /\ calls[1].prim = "add_tool"
    /\ calls[1].outcome.kind = "ok"

InvokeTool(kw) ==
    /\ Registered
    /\ LET held == delivered.tools[calls[1].args[1]]
           reg == IF result.op = "invoke" THEN result.args[1] ELSE result.args
           r == CallTool([held.fn EXCEPT !.globals = tables[held.table]], kw)
       IN /\ result' = IF r.kind = "value"
                       THEN Return("invoke", <<reg, kw>>, r.v)
                       ELSE [op |-> "invoke", args |-> <<reg, kw>>, kind |-> "raise",
                             val |-> <<r.exc.type, r.exc.msg, r.exc>>]
          /\ tables' = Put(tables, held.table, r.globals)
    /\ UNCHANGED <<is_running, host, port, server_name, started_with, tool_input,
                 calls, compiles, delivered, replaced, client_vars>>

Next ==
    \/ \E h \in Hosts, p \in Ports : Direct(Start(h, p))
    \/ \E n \in ToolNames, d \in Descriptions, c \in ServerCodes, t \in CodeTypes :
          Direct(AddTool(n, d, c, t))
    \/ \E kw \in Kwargs : Direct(InvokeTool(kw))
    \/ Direct(Stop)
    \/ Direct(GetUrl)
    \/ \E n \in ResourceNames, c \in ResourceContents, d \in Descriptions :
          Direct(AddResource(n, c, d))
    \/ \E n \in PromptNames, c \in PromptContents, d \in Descriptions :
          Direct(AddPrompt(n, c, d))

Spec == Init /\ [][Next]_vars

(***************************************************************************)
(* The async_* methods of MCPServerService.  Each is declared with its own *)
(* parameters and defaults and its body is one return statement that calls *)
(* the synchronous method with the bound parameters in the order written;  *)
(* no body holds an await, so a coroutine once driven runs to its end in   *)
(* one step.  A caller gives the leading positional arguments and leaves   *)
(* the rest to the defaults.                                               *)
(***************************************************************************)
\* a parameter without a default
Required == <<"required">>
\* the parameters after self, bound from the arguments given
Bind(signature, given) ==
    [i \in 1 .. Len(signature) |-> IF i <= Len(given) THEN given[i] ELSE signature[i]]
\* def start(host="localhost", port=8000), def stop(), def get_url(),
\* def add_tool(name, description, code, code_type="python"),
\* def add_resource(name, content, description=""),
\* def add_prompt(name, content, description="")
SyncSignature ==
    [start |-> <<"localhost", 8000>>,
     stop |-> <<>>,
     get_url |-> <<>>,
     add_tool |-> <<Required, Required, Required, "python">>,
     add_resource |-> <<Required, Required, "">>,
     add_prompt |-> <<Required, Required, "">>]
\* faulty variant: async_start_server listens on another port by default
AsyncSignature_OtherPort ==
    [async_start_server |-> <<"localhost", 8001>>,
     async_stop_server |-> <<>>,
     async_get_url |-> <<>>,
     async_add_tool |-> <<Required, Required, Required, "python">>,
     async_add_resource |-> <<Required, Required, "">>,
     async_add_prompt |-> <<Required, Required, "">>]

\* the def lines of the six async_* methods
AsyncSignature ==
    [async_start_server |-> <<"localhost", 8000>>,
     async_stop_server |-> <<>>,
     async_get_url |-> <<>>,
     async_add_tool |-> <<Required, Required, Required, "python">>,
     async_add_resource |-> <<Required, Required, "">>,
     async_add_prompt |-> <<Required, Required, "">>]

\* a coroutine of the method with the arguments its caller gave
Coroutine(name, given) == [name |-> name, given |-> given]

\* return self.start(host, port)
AsyncStartServer(given) ==
    LET a == Bind(AsyncSignature.async_start_server, given) IN
    /\ Start(a[1], a[2])
    /\ awaited' = Coroutine("async_start_server", given)
    /\ UNCHANGED <<mode, factory, coroutines, made>>

\* return self.stop()
AsyncStopServer ==
    /\ Stop
    /\ awaited' = Coroutine("async_stop_server", <<>>)
    /\ UNCHANGED <<mode, factory, coroutines, made>>

\* return self.get_url()
AsyncGetUrl ==
    /\ GetUrl
    /\ awaited' = Coroutine("async_get_url", <<>>)
    /\ UNCHANGED <<mode, factory, coroutines, made>>

\* return self.add_tool(name, description, code, code_type)
AsyncAddTool(given) ==
    LET a == Bind(AsyncSignature.async_add_tool, given) IN
    /\ AddTool(a[1], a[2], a[3], a[4])
    /\ awaited' = Coroutine("async_add_tool", given)
    /\ UNCHANGED <<mode, factory, coroutines, made>>

\* return self.add_resource(name, content, description)
AsyncAddResource(given) ==
    LET a == Bind(AsyncSignature.async_add_resource, given) IN
    /\ AddResource(a[1], a[2], a[3])
    /\ awaited' = Coroutine("async_add_resource", given)
    /\ UNCHANGED <<mode, factory, coroutines, made>>

\* return self.add_prompt(name, content, description)
AsyncAddPrompt(given) ==
    LET a == Bind(AsyncSignature.async_add_prompt, given) IN
    /\ AddPrompt(a[1], a[2], a[3])
    /\ awaited' = Coroutine("async_add_prompt", given)
    /\ UNCHANGED <<mode, factory, coroutines, made>>

\* what callers give: every parameter, or the defaulted ones left out
MoreDescriptions == Descriptions \cup {"a note"}
StartGiven ==
    {<<>>} \cup {<<h>> : h \in Hosts} \cup {<<h, p>> : h \in Hosts, p \in Ports}
AddToolGiven ==
    {<<n, d, c>> : n \in {"echo"}, d \in MoreDescriptions, c \in ServerCodes}
        \cup {<<n, d, c, t>> : n \in {"echo"}, d \in MoreDescriptions,
                               c \in ServerCodes, t \in CodeTypes}
AddResourceGiven ==
    {<<n, c>> : n \in ResourceNames, c \in ResourceContents}
        \cup {<<n, c, d>> : n \in ResourceNames, c \in ResourceContents,
                            d \in MoreDescriptions}
AddPromptGiven ==
    {<<n, c>> : n \in PromptNames, c \in PromptContents}
        \cup {<<n, c, d>> : n \in PromptNames, c \in PromptContents,
                            d \in MoreDescriptions}

\* SpecAsync: the server driven through its coroutines only
AsyncNext ==
    \/ \E g \in StartGiven : AsyncStartServer(g)
    \/ AsyncStopServer
    \/ AsyncGetUrl
    \/ \E g \in AddToolGiven : AsyncAddTool(g)
    \/ \E g \in AddResourceGiven : AsyncAddResource(g)
    \/ \E g \in AddPromptGiven : AsyncAddPrompt(g)

SpecAsync == Init /\ [][AsyncNext]_vars

(***************************************************************************)
(* SpecTool: one tool name and one code body, drawn at the start, go       *)
(* through start, add_tool and invocation.                                 *)
(***************************************************************************)
ToolInit ==
    /\ is_running = FALSE
    /\ host = DefaultHost
    /\ port = DefaultPort
    /\ server_name = ""
    /\ calls = <<>>
    /\ compiles = 0
    /\ result = NoResult
    /\ started_with = <<>>
    /\ tool_input \in (ToolNames \X CodeBodies)
    /\ delivered = NothingDelivered
    /\ replaced = NoneValue
    /\ tables = Nothing
    /\ client = NoClient
    /\ is_connected = FALSE
    /\ is_multi_client = FALSE
    /\ phase = "none"
    /\ awaited = NoCoroutine
    /\ coroutines = <<>>
    /\ made = {}
    /\ mode = "client_and_server"
    /\ factory = Constructed(mode, NewFactory)

ToolNext ==
    \/ Direct(Start(DefaultHost, DefaultPort))
    \/ Direct(Stop)
    \/ \E t \in CodeTypes : Direct(AddTool(tool_input[1], "", tool_input[2], t))
    \/ \E kw \in Kwargs : Direct(InvokeTool(kw))

SpecTool == ToolInit /\ [][ToolNext]_vars

(***************************************************************************)
(* SpecRegistry: on one server, tools, resources and prompts are added     *)
(* again and again under the same names, and the tools are run.            *)
(***************************************************************************)
RegistryNext ==
    \/ Direct(Start(DefaultHost, DefaultPort))
    \/ \E n \in ToolNames, c \in IsolationCodes : Direct(AddTool(n, "", c, "python"))
    \/ Direct(InvokeTool(Nothing))
    \/ \E n \in ResourceNames, c \in ResourceContents : Direct(AddResource(n, c, ""))
    \/ \E n \in PromptNames, c \in MorePromptContents : Direct(AddPrompt(n, c, ""))

SpecRegistry == Init /\ [][RegistryNext]_vars

(***************************************************************************)
(* MCPClientService.  The handle (self.client) is a session, a stdio       *)
(* client or a multi-server router; like the server's handle it is a       *)
(* collaborator whose primitives return or raise.                          *)
(***************************************************************************)
ClientUrls == {"http://localhost:8000/sse"}
ServerNames == {"serverA", "serverB"}
\* the name-to-descriptor mappings given to create; serverB is in none of them
ServerConfigs == {[n \in {"serverA"} |-> [url |-> "http://a.example/sse",
                                           transport |-> "sse"]]}
UrlTarget(u) == <<"url", u>>
ConfigsTarget(c) == <<"configs", c>>
Targets == {UrlTarget(u) : u \in ClientUrls} \cup {ConfigsTarget(c) : c \in ServerConfigs}
Transports == {"sse", "stdio", "websocket"}
Commands == {NoneValue, <<"str", "node">>}
ArgLists == {NoneValue, <<"list", <<"server.py">>>>}
ToolNamesOfServer == {"toolX"}
ClientKwargs == {Nothing, [k \in {"a"} |-> 1]}
PromptArguments == {NoneValue, <<"dict", [k \in {"name"} |-> "Ada"]>>}
IncludePrefix == BOOLEAN

\* ClientSession(url, write_stream=output_stream), stdio_client(params),
\* MultiServerMCPClient(server_configs), and a session the router resolved
Session(url) == <<"session", url>>
StdioClient(cmd, args) == <<"stdio", cmd, args>>
Router(configs) == <<"router", configs>>
SubSession(name) == <<"sub", name>>
Adapter == <<"adapter">>

EmptyList == <<"list", <<>>>>
EmptyDict == <<"dict", Nothing>>
\* what a primitive of the handle hands back when it returns
PrimValues == {EmptyList, <<"list", <<"item">>>>}
PrimOutcomes == {Returned(v) : v \in PrimValues} \cup {Raised(e) : e \in HandleExceptions}
\* router.get_client(server_name): a sub-session for a configured name,
\* nothing for any other name, or an exception
ResolveOutcomes(router, server) ==
    (IF server \in DOMAIN router[2]
     THEN {Returned(SubSession(server))}
     ELSE {Returned(NoneValue)}) \cup {Raised(e) : e \in HandleExceptions}
\* the constructors of the handles: ClientSession is None (the import failed),
\* the constructor raises, or the handle is built
MissingRuntime(what) == [type |-> "ImportError", msg |-> what]
ConstructOutcomes(what) ==
    {Returned(NoneValue), Raised(MissingRuntime(what))}
        \cup {Raised(e) : e \in HandleExceptions}

ClientCall(on, prim, args, kwargs, outcome) ==
    [on |-> on, prim |-> prim, args |-> args, kwargs |-> kwargs, outcome |-> outcome]

NoCause == [type |-> "None", msg |-> ""]
\* raise ValueError(msg)
RaiseValueError(op, args, msg) ==
    [op |-> op, args |-> args, kind |-> "raise", val |-> <<"ValueError", msg, NoCause>>]
\* raise ValueError(f"{prefix}{e}") from e
WrapValueError(op, args, prefix, e) ==
    [op |-> op, args |-> args, kind |-> "raise",
     val |-> <<"ValueError", <<prefix, e.msg>>, e>>]
\* an exception of a collaborator that no handler catches
Propagate(op, args, e) ==
    [op |-> op, args |-> args, kind |-> "raise", val |-> <<e.type, <<e.msg>>, NoCause>>]

server_vars == <<is_running, host, port, server_name, compiles, started_with,
                 tool_input, delivered, replaced, tables>>

(***************************************************************************)
(* MCPClientService.create                                                 *)
(***************************************************************************)
\* faulty variant: a create on a connected service builds a new handle
CreateAlreadyConnected_Recreates(target, transport, command, args) ==
    /\ client' = IF target[1] = "configs" THEN Router(target[2]) ELSE Session(target[2])
    /\ is_multi_client' = (target[1] = "configs")
    /\ result' = Return("create", <<target, transport, command, args>>,
                        <<"Client created connected to ", target[2]>>)
    /\ calls' = <<>>
    /\ UNCHANGED <<is_connected, phase>>

\* create, the branch "if self._is_connected"
CreateAlreadyConnected(target, transport, command, args) ==
    /\ result' = RaiseValueError("create", <<target, transport, command, args>>,
                                 <<"Client service already connected">>)
    /\ calls' = <<>>
    /\ UNCHANGED <<client, is_connected, is_multi_client, phase>>

\* faulty variant: create leaves the connected flag to connect()
MarkCreated_NotConnected(handle, multi) ==
    /\ client' = handle
    /\ is_multi_client' = multi
    /\ phase' = "created"
    /\ UNCHANGED is_connected

\* self.client = ...; self._is_connected = True; self._is_multi_client = ...
MarkCreated(handle, multi) ==
    /\ client' = handle
    /\ is_connected' = TRUE
    /\ is_multi_client' = multi
    /\ phase' = "created"

\* faulty variant: create with a mapping sets the connected flag before the
\* router is built, so a constructor that raises leaves the flag set
CreateMulti_FlagBeforeConstruct(target, transport, command, args) ==
    LET a == <<target, transport, command, args>> IN
    \E o \in ConstructOutcomes("langchain_mcp_adapters not installed") :
    /\ calls' = IF o.kind = "raise" /\ o.exc.type = "ImportError" THEN <<>>
                ELSE <<ClientCall(Adapter, "MultiServerMCPClient", <<target[2]>>,
                                  Nothing, o)>>
    /\ IF o.kind = "ok"
       THEN /\ MarkCreated(Router(target[2]), TRUE)
            /\ result' = Return("create", a, <<"Multi-server client created">>)
       ELSE /\ is_connected' = TRUE
            /\ UNCHANGED <<client, is_multi_client, phase>>
            /\ result' = [op |-> "create", args |-> a, kind |-> "raise",
                          val |-> <<"ValueError",
                                    <<"Failed to create multi-server client: ",
                                      "Failed to create multi-server client: ",
                                      o.exc.msg>>,
                                    [type |-> "ValueError", msg |-> o.exc.msg]>>]

\* create with a mapping: _create_multi_server_client wraps the constructor's
\* exception in a ValueError, and create wraps that one once more (the cause
\* is written with the constructor's message, its own prefix left out)
CreateMulti(target, transport, command, args) ==
    LET a == <<target, transport, command, args>> IN
    \E o \in ConstructOutcomes("langchain_mcp_adapters not installed") :
    /\ calls' = IF o.kind = "raise" /\ o.exc.type = "ImportError" THEN <<>>
                ELSE <<ClientCall(Adapter, "MultiServerMCPClient", <<target[2]>>,
                                  Nothing, o)>>
    /\ IF o.kind = "ok"
       THEN /\ MarkCreated(Router(target[2]), TRUE)
            /\ result' = Return("create", a, <<"Multi-server client created">>)
       ELSE /\ UNCHANGED <<client, is_connected, is_multi_client, phase>>
            /\ result' = [op |-> "create", args |-> a, kind |-> "raise",
                          val |-> <<"ValueError",
                                    <<"Failed to create multi-server client: ",
                                      "Failed to create multi-server client: ",
                                      o.exc.msg>>,
                                    [type |-> "ValueError", msg |-> o.exc.msg]>>]

\* faulty variant: a create with a URL keeps the mode of the handle before it
CreateSse_KeepsMode(target, transport, command, args) ==
    LET a == <<target, transport, command, args>> IN
    \E o \in ConstructOutcomes("ClientSession not defined") :
    /\ calls' = IF o.kind = "raise" /\ o.exc.type = "ImportError" THEN <<>>
                ELSE <<ClientCall(Adapter, "ClientSession", <<target[2]>>, Nothing, o)>>
    /\ IF o.kind = "ok"
       THEN /\ MarkCreated(Session(target[2]), is_multi_client)
            /\ result' = Return("create", a, <<"Client created connected to ", target[2]>>)
       ELSE /\ UNCHANGED <<client, is_connected, is_multi_client, phase>>
            /\ result' = WrapValueError("create", a, "Failed to create SSE client: ", o.exc)

\* create with a URL and transport "sse"
CreateSse(target, transport, command, args) ==
    LET a == <<target, transport, command, args>> IN
    \E o \in ConstructOutcomes("ClientSession not defined") :
    /\ calls' = IF o.kind = "raise" /\ o.exc.type = "ImportError" THEN <<>>
                ELSE <<ClientCall(Adapter, "ClientSession", <<target[2]>>, Nothing, o)>>
    /\ IF o.kind = "ok"
       THEN /\ MarkCreated(Session(target[2]), FALSE)
            /\ result' = Return("create", a, <<"Client created connected to ", target[2]>>)
       ELSE /\ UNCHANGED <<client, is_connected, is_multi_client, phase>>
            /\ result' = WrapValueError("create", a, "Failed to create SSE client: ", o.exc)

\* faulty variant: the handle is assigned although the constructor failed
CreateStdio_AssignsOnFailure(target, transport, command, args) ==
    LET a == <<target, transport, command, args>>
        cmd == IF command = NoneValue THEN "python" ELSE command[2]
        cmd_args == IF args = NoneValue THEN <<target[2]>> ELSE args[2]
    IN \E o \in ConstructOutcomes("StdioServerParameters or stdio_client not defined") :
       /\ calls' = IF o.kind = "raise" /\ o.exc.type = "ImportError" THEN <<>>
                   ELSE <<ClientCall(Adapter, "stdio_client", <<cmd, cmd_args>>, Nothing, o)>>
       /\ IF o.kind = "ok"
          THEN /\ MarkCreated(StdioClient(cmd, cmd_args), FALSE)
               /\ result' = Return("create", a,
                                   <<"Client created connected to ", target[2]>>)
          ELSE /\ client' = StdioClient(cmd, cmd_args)
               /\ UNCHANGED <<is_connected, is_multi_client, phase>>
               /\ result' = WrapValueError("create", a,
                                           "Failed to create stdio client: ", o.exc)

\* create with a URL and transport "stdio": cmd = command or "python",
\* cmd_args = args or [url]
CreateStdio(target, transport, command, args) ==
    LET a == <<target, transport, command, args>>
        cmd == IF command = NoneValue THEN "python" ELSE command[2]
        cmd_args == IF args = NoneValue THEN <<target[2]>> ELSE args[2]
    IN \E o \in ConstructOutcomes("StdioServerParameters or stdio_client not defined") :
       /\ calls' = IF o.kind = "raise" /\ o.exc.type = "ImportError" THEN <<>>
                   ELSE <<ClientCall(Adapter, "stdio_client", <<cmd, cmd_args>>, Nothing, o)>>
       /\ IF o.kind = "ok"
          THEN /\ MarkCreated(StdioClient(cmd, cmd_args), FALSE)
               /\ result' = Return("create", a,
                                   <<"Client created connected to ", target[2]>>)
          ELSE /\ UNCHANGED <<client, is_connected, is_multi_client, phase>>
               /\ result' = WrapValueError("create", a,
                                           "Failed to create stdio client: ", o.exc)

\* faulty variant: any other transport is served as "sse"
CreateUnsupported_FallsBackToSse(target, transport, command, args) ==
    /\ MarkCreated(Session(target[2]), FALSE)
    /\ result' = Return("create", <<target, transport, command, args>>,
                        <<"Client created connected to ", target[2]>>)
    /\ calls' = <<ClientCall(Adapter, "ClientSession", <<target[2]>>, Nothing,
                             Returned(NoneValue))>>

\* create with a URL and any other transport
CreateUnsupported(target, transport, command, args) ==
    /\ result' = RaiseValueError("create", <<target, transport, command, args>>,
                                 <<"Unsupported transport type: ", transport>>)
    /\ calls' = <<>>
    /\ UNCHANGED <<client, is_connected, is_multi_client, phase>>

Create(target, transport, command, args) ==
    /\ IF is_connected
       THEN CreateAlreadyConnected(target, transport, command, args)
       ELSE IF target[1] = "configs"
       THEN CreateMulti(target, transport, command, args)
       ELSE IF transport = "sse"
       THEN CreateSse(target, transport, command, args)
       ELSE IF transport = "stdio"
       THEN CreateStdio(target, transport, command, args)
       ELSE CreateUnsupported(target, transport, command, args)
    /\ UNCHANGED server_vars

(***************************************************************************)
(* MCPClientService.connect / disconnect / is_connected                    *)
(***************************************************************************)
\* faulty variant: connect without a handle reports success
Connect_WithoutHandleTest ==
    /\ IF client = NoClient
       THEN /\ result' = Return("connect", <<>>, <<"Connection successful">>)
            /\ calls' = <<>>
            /\ is_connected' = TRUE
            /\ UNCHANGED phase
       ELSE \E o \in VoidOutcomes :
            /\ calls' = <<ClientCall(client, "connect", <<>>, Nothing, o)>>
            /\ IF o.kind = "ok"
               THEN /\ is_connected' = TRUE
                    /\ phase' = "connected"
                    /\ result' = Return("connect", <<>>, <<"Connection successful">>)
               ELSE /\ UNCHANGED <<is_connected, phase>>
                    /\ result' = Propagate("connect", <<>>, o.exc)
    /\ UNCHANGED <<client, is_multi_client, server_vars>>

\* faulty variant: the connected flag is set before the handle's connect is
\* awaited
Connect_FlagBeforeAwait ==
    /\ IF client = NoClient
       THEN /\ result' = RaiseValueError("connect", <<>>, <<"Client not created">>)
            /\ calls' = <<>>
            /\ UNCHANGED <<is_connected, phase>>
       ELSE \E o \in VoidOutcomes :
            /\ calls' = <<ClientCall(client, "connect", <<>>, Nothing, o)>>
            /\ is_connected' = TRUE
            /\ IF o.kind = "ok"
               THEN /\ phase' = "connected"
                    /\ result' = Return("connect", <<>>, <<"Connection successful">>)
               ELSE /\ UNCHANGED phase
                    /\ result' = Propagate("connect", <<>>, o.exc)
    /\ UNCHANGED <<client, is_multi_client, server_vars>>

Connect ==
    /\ IF client = NoClient
       THEN /\ result' = RaiseValueError("connect", <<>>, <<"Client not created">>)
            /\ calls' = <<>>
            /\ UNCHANGED <<is_connected, phase>>
       ELSE \E o \in VoidOutcomes :
            /\ calls' = <<ClientCall(client, "connect", <<>>, Nothing, o)>>
            /\ IF o.kind = "ok"
               THEN /\ is_connected' = TRUE
                    /\ phase' = "connected"
                    /\ result' = Return("connect", <<>>, <<"Connection successful">>)
               ELSE /\ UNCHANGED <<is_connected, phase>>
                    /\ result' = Propagate("connect", <<>>, o.exc)
    /\ UNCHANGED <<client, is_multi_client, server_vars>>

\* faulty variant: disconnect tears the handle down and leaves the flag set
Disconnect_KeepsFlag ==
    /\ IF client = NoClient
       THEN /\ result' = RaiseValueError("disconnect", <<>>, <<"Client not created">>)
            /\ calls' = <<>>
            /\ UNCHANGED <<is_connected, phase>>
       ELSE \E o \in VoidOutcomes :
            /\ calls' = <<ClientCall(client, "disconnect", <<>>, Nothing, o)>>
            /\ IF o.kind = "ok"
               THEN /\ UNCHANGED is_connected
                    /\ phase' = "disconnected"
                    /\ result' = Return("disconnect", <<>>, <<"Disconnected">>)
               ELSE /\ UNCHANGED <<is_connected, phase>>
                    /\ result' = Propagate("disconnect", <<>>, o.exc)
    /\ UNCHANGED <<client, is_multi_client, server_vars>>

Disconnect ==
    /\ IF client = NoClient
       THEN /\ result' = RaiseValueError("disconnect", <<>>, <<"Client not created">>)
            /\ calls' = <<>>
            /\ UNCHANGED <<is_connected, phase>>
       ELSE \E o \in VoidOutcomes :
            /\ calls' = <<ClientCall(client, "disconnect", <<>>, Nothing, o)>>
            /\ IF o.kind = "ok"
               THEN /\ is_connected' = FALSE
                    /\ phase' = "disconnected"
                    /\ result' = Return("disconnect", <<>>, <<"Disconnected">>)
               ELSE /\ UNCHANGED <<is_connected, phase>>
                    /\ result' = Propagate("disconnect", <<>>, o.exc)
    /\ UNCHANGED <<client, is_multi_client, server_vars>>

\* the setter of the is_connected property
SetIsConnected(value) ==
    /\ is_connected' = value
    /\ result' = Return("is_connected", <<value>>, NoneValue)
    /\ calls' = <<>>
    /\ UNCHANGED <<client, is_multi_client, phase, server_vars>>

(***************************************************************************)
(* The dispatch and conversion operations of MCPClientService.  Each one   *)
(* begins with self._check_connection() and "if self.client is None".      *)
(***************************************************************************)
\* faulty variant: the test of the handle is left out
Gate_WithoutHandleTest == is_connected

\* both tests passed
Gate == is_connected /\ client # NoClient

\* faulty variant: the handle is tested before the connected flag
Refusal_HandleFirst ==
    IF client = NoClient THEN <<"Client not created">>
    ELSE <<"Client service not connected">>

\* the message of the ValueError of the test that fails first
Refusal ==
    IF ~is_connected THEN <<"Client service not connected">>
    ELSE <<"Client not created">>

Refuse(op, args) ==
    /\ result' = RaiseValueError(op, args, Refusal)
    /\ calls' = <<>>

\* what an operation did with its collaborators: the calls it made and the
\* outcome (a value or an exception) it ended with
Run(cs, outcome) == [calls |-> cs, out |-> outcome]
\* faulty variant: an exception of a collaborator becomes an empty result
Finish_SwallowsException(op, args, runs) ==
    \E r \in runs :
    /\ calls' = r.calls
    /\ result' = IF r.out.kind = "ok" THEN Return(op, args, r.out.ret)
                 ELSE Return(op, args, EmptyList)

\* the operation hands the outcome to its caller: the value is returned as it
\* is, the exception is not caught
Finish(op, args, runs) ==
    \E r \in runs :
    /\ calls' = r.calls
    /\ result' = IF r.out.kind = "ok" THEN Return(op, args, r.out.ret)
                 ELSE Propagate(op, args, r.out.exc)

\* faulty variant: a primitive that raised is called a second time
Delegate_RetriesOnce(on, prim, pargs, pkwargs) ==
    {Run(<<ClientCall(on, prim, pargs, pkwargs, o)>>, o) :
        o \in {x \in PrimOutcomes : x.kind = "ok"}}
    \cup {Run(<<ClientCall(on, prim, pargs, pkwargs, f),
                ClientCall(on, prim, pargs, pkwargs, o)>>, o) :
             f \in {x \in PrimOutcomes : x.kind = "raise"}, o \in PrimOutcomes}

\* return await <handle>.<prim>(...)
Delegate(on, prim, pargs, pkwargs) ==
    {Run(<<ClientCall(on, prim, pargs, pkwargs, o)>>, o) : o \in PrimOutcomes}

\* faulty variant: a server name the router does not resolve is an error
ViaSubSession_MissRaises(server, prim, pargs, empty) ==
    UNION {LET resolve == ClientCall(client, "get_client", <<server>>, Nothing, g) IN
           IF g.kind = "raise" THEN {Run(<<resolve>>, g)}
           ELSE IF g.ret = NoneValue
           THEN {Run(<<resolve>>, Raised([type |-> "KeyError", msg |-> server]))}
           ELSE {Run(<<resolve, ClientCall(g.ret, prim, pargs, Nothing, o)>>, o) :
                    o \in PrimOutcomes}
           : g \in ResolveOutcomes(client, server)}

\* client = await self.client.get_client(server_name)
\* if client: return await client.<prim>(...)  else: return <empty>
ViaSubSession(server, prim, pargs, empty) ==
    UNION {LET resolve == ClientCall(client, "get_client", <<server>>, Nothing, g) IN
           IF g.kind = "raise" THEN {Run(<<resolve>>, g)}
           ELSE IF g.ret = NoneValue THEN {Run(<<resolve>>, Returned(empty))}
           ELSE {Run(<<resolve, ClientCall(g.ret, prim, pargs, Nothing, o)>>, o) :
                    o \in PrimOutcomes}
           : g \in ResolveOutcomes(client, server)}

client_frame == <<client, is_connected, is_multi_client, phase, server_vars>>

\* faulty variant: the session is called with the router's call shape
ClientCallTool_OneShape(server, tool_name, kwargs) ==
    LET a == <<server, tool_name, kwargs>> IN
    /\ IF ~Gate THEN Refuse("call_tool", a)
       ELSE Finish("call_tool", a,
                   Delegate(client, "call_tool",
                            <<server, tool_name, <<"dict", kwargs>>>>, Nothing))
    /\ UNCHANGED client_frame

\* call_tool(server_name, tool_name, **kwargs)
ClientCallTool(server, tool_name, kwargs) ==
    LET a == <<server, tool_name, kwargs>> IN
    /\ IF ~Gate THEN Refuse("call_tool", a)
       ELSE IF is_multi_client
       THEN Finish("call_tool", a,
                   Delegate(client, "call_tool",
                            <<server, tool_name, <<"dict", kwargs>>>>, Nothing))
       ELSE Finish("call_tool", a, Delegate(client, "call_tool", <<tool_name>>, kwargs))
    /\ UNCHANGED client_frame

\* faulty variant: the session's list is dropped and an empty list returned
ListTools_DropsResult(include_server_prefix) ==
    LET a == <<include_server_prefix>> IN
    /\ IF ~Gate THEN Refuse("list_tools", a)
       ELSE IF is_multi_client
       THEN Finish("list_tools", a,
                   Delegate(client, "list_all_tools", <<>>,
                            [k \in {"include_prefix"} |-> include_server_prefix]))
       ELSE Finish("list_tools", a,
                   {Run(r.calls, IF r.out.kind = "ok" THEN Returned(EmptyList) ELSE r.out) :
                       r \in Delegate(client, "list_tools", <<>>, Nothing)})
    /\ UNCHANGED client_frame

\* faulty variant: on a router the prefix is always asked for
ListTools_AlwaysPrefixed(include_server_prefix) ==
    LET a == <<include_server_prefix>> IN
    /\ IF ~Gate THEN Refuse("list_tools", a)
       ELSE IF is_multi_client
       THEN Finish("list_tools", a,
                   Delegate(client, "list_all_tools", <<>>,
                            [k \in {"include_prefix"} |-> TRUE]))
       ELSE Finish("list_tools", a, Delegate(client, "list_tools", <<>>, Nothing))
    /\ UNCHANGED client_frame

\* list_tools(include_server_prefix=True)
ListTools(include_server_prefix) ==
    LET a == <<include_server_prefix>> IN
    /\ IF ~Gate THEN Refuse("list_tools", a)
       ELSE IF is_multi_client
       THEN Finish("list_tools", a,
                   Delegate(client, "list_all_tools", <<>>,
                            [k \in {"include_prefix"} |-> include_server_prefix]))
       ELSE Finish("list_tools", a, Delegate(client, "list_tools", <<>>, Nothing))
    /\ UNCHANGED client_frame

\* list_resources(server_name="default")
ListResources(server) ==
    LET a == <<server>> IN
    /\ IF ~Gate THEN Refuse("list_resources", a)
       ELSE IF is_multi_client
       THEN Finish("list_resources", a,
                   ViaSubSession(server, "list_resources", <<>>, EmptyList))
       ELSE Finish("list_resources", a, Delegate(client, "list_resources", <<>>, Nothing))
    /\ UNCHANGED client_frame

\* read_resource(resource_name="", server_name="default")
ReadResource(resource_name, server) ==
    LET a == <<resource_name, server>> IN
    /\ IF ~Gate THEN Refuse("read_resource", a)
       ELSE IF is_multi_client
       THEN Finish("read_resource", a,
                   ViaSubSession(server, "read_resource", <<resource_name>>,
                                 EmptyDict))
       ELSE Finish("read_resource", a,
                   Delegate(client, "read_resource", <<resource_name>>, Nothing))
    /\ UNCHANGED client_frame

\* list_prompts(server_name="default")
ListPrompts(server) ==
    LET a == <<server>> IN
    /\ IF ~Gate THEN Refuse("list_prompts", a)
       ELSE IF is_multi_client
       THEN Finish("list_prompts", a,
                   ViaSubSession(server, "list_prompts", <<>>, EmptyList))
       ELSE Finish("list_prompts", a, Delegate(client, "list_prompts", <<>>, Nothing))
    /\ UNCHANGED client_frame

\* arguments or {}
OrEmptyDict(arguments) == IF arguments = NoneValue THEN EmptyDict ELSE arguments

\* the body of get_prompt after its two tests
GetPromptRuns(prompt_name, arguments, server) ==
    IF is_multi_client
    THEN ViaSubSession(server, "get_prompt",
                       <<prompt_name, OrEmptyDict(arguments)>>, EmptyDict)
    ELSE Delegate(client, "get_prompt", <<prompt_name, arguments>>, Nothing)

\* get_prompt(prompt_name, arguments=None, server_name="default")
GetPrompt(prompt_name, arguments, server) ==
    LET a == <<prompt_name, arguments, server>> IN
    /\ IF ~Gate THEN Refuse("get_prompt", a)
       ELSE Finish("get_prompt", a, GetPromptRuns(prompt_name, arguments, server))
    /\ UNCHANGED client_frame

\* get_langchain_tools(server_name="default"): the adapter loads the tools
\* from the handle
GetLangchainTools(server) ==
    LET a == <<server>> IN
    /\ IF ~Gate THEN Refuse("get_langchain_tools", a)
       ELSE Finish("get_langchain_tools", a,
                   Delegate(Adapter, "load_tools_from_session", <<client>>, Nothing))
    /\ UNCHANGED client_frame

\* MCPAdapterService.convert_prompt_to_langchain(prompt_message)
ConvertOutcomes(prompt_data) ==
    {Returned(<<"message", prompt_data>>)} \cup {Raised(e) : e \in HandleExceptions}

\* faulty variant: a prompt that came back empty is answered with an empty
\* list, the converter not called
GetLangchainPrompt_SkipsEmpty(prompt_name, arguments, server) ==
    LET a == <<prompt_name, arguments, server>> IN
    /\ IF ~Gate THEN Refuse("get_langchain_prompt", a)
       ELSE Finish("get_langchain_prompt", a,
              UNION {IF r.out.kind = "raise" THEN {r}
                     ELSE IF r.out.ret \in {EmptyDict, EmptyList}
                     THEN {Run(r.calls, Returned(EmptyList))}
                     ELSE {Run(Append(r.calls,
                                      ClientCall(Adapter, "convert_prompt_to_langchain",
                                                 <<r.out.ret>>, Nothing, c)),
                               IF c.kind = "ok" THEN Returned(<<"list", <<c.ret>>>>)
                               ELSE c) : c \in ConvertOutcomes(r.out.ret)}
                     : r \in GetPromptRuns(prompt_name, arguments, server)})
    /\ UNCHANGED client_frame

\* get_langchain_prompt(prompt_name, arguments=None, server_name="default"):
\* get_prompt, then one conversion, then a list of the one message
GetLangchainPrompt(prompt_name, arguments, server) ==
    LET a == <<prompt_name, arguments, server>> IN
    /\ IF ~Gate THEN Refuse("get_langchain_prompt", a)
       ELSE Finish("get_langchain_prompt", a,
              UNION {IF r.out.kind = "raise" THEN {r}
                     ELSE {Run(Append(r.calls,
                                      ClientCall(Adapter, "convert_prompt_to_langchain",
                                                 <<r.out.ret>>, Nothing, c)),
                               IF c.kind = "ok" THEN Returned(<<"list", <<c.ret>>>>)
                               ELSE c) : c \in ConvertOutcomes(r.out.ret)}
                     : r \in GetPromptRuns(prompt_name, arguments, server)})
    /\ UNCHANGED client_frame

PromptNamesOfServer == {"greeting"}
ResourceNamesOfServer == {"cities"}

ClientNext ==
    \/ \E t \in Targets, tr \in Transports, c \in Commands, a \in ArgLists :
          Direct(Create(t, tr, c, a))
    \/ Direct(Connect)
    \/ Direct(Disconnect)
    \/ \E s \in ServerNames, t \in ToolNamesOfServer, kw \in ClientKwargs :
          Direct(ClientCallTool(s, t, kw))
    \/ \E b \in IncludePrefix : Direct(ListTools(b))
    \/ \E s \in ServerNames : Direct(ListResources(s))
    \/ \E r \in ResourceNamesOfServer, s \in ServerNames : Direct(ReadResource(r, s))
    \/ \E s \in ServerNames : Direct(ListPrompts(s))
    \/ \E p \in PromptNamesOfServer, a \in PromptArguments, s \in ServerNames :
          Direct(GetPrompt(p, a, s))
    \/ \E s \in ServerNames : Direct(GetLangchainTools(s))
    \/ \E p \in PromptNamesOfServer, a \in PromptArguments, s \in ServerNames :
          Direct(GetLangchainPrompt(p, a, s))

SpecClient == Init /\ [][ClientNext]_vars

\* the service with its is_connected property assigned from outside
ClientSetterNext ==
    \/ ClientNext
    \/ \E v \in BOOLEAN : Direct(SetIsConnected(v))

SpecClientSetter == Init /\ [][ClientSetterNext]_vars

(***************************************************************************)
(* connect() and disconnect() as coroutines.  Each runs from its entry to  *)
(* "await client.connect()" / "await client.disconnect()" in one step, is  *)
(* suspended there while the handle's coroutine is in flight, and runs     *)
(* from the handle's outcome to its end in a second step.  Nothing orders  *)
(* the handle's outcomes of two coroutines in flight: the service holds no *)
(* lock, and the handle is not part of it.                                 *)
(***************************************************************************)
MaxCoroutines == 2

\* a coroutine: the method, the handle it read from self.client, where it
\* stands ("await", "returned", "raised") and its place among the coroutines
\* that have ended (0 while it is suspended)
Awaiting(op, on) == [op |-> op, on |-> on, at |-> "await", done |-> 0]
Ended(c, how, rank) == [op |-> c.op, on |-> c.on, at |-> how, done |-> rank]
Completed == Cardinality({i \in DOMAIN coroutines : coroutines[i].at # "await"})

\* the statements of connect / disconnect up to the await: the test of the
\* handle and "client = self.client"
Enter(op) ==
    /\ Len(coroutines) < MaxCoroutines
    /\ IF client = NoClient
       THEN /\ result' = RaiseValueError(op, <<>>, <<"Client not created">>)
            /\ calls' = <<>>
            /\ coroutines' = Append(coroutines,
                                    Ended(Awaiting(op, NoClient), "raised", Completed + 1))
       ELSE /\ coroutines' = Append(coroutines, Awaiting(op, client))
            /\ UNCHANGED <<result, calls>>
    /\ awaited' = NoCoroutine
    /\ UNCHANGED <<client_vars, server_vars, mode, factory, made>>

EnterConnect == Enter("connect")
EnterDisconnect == Enter("disconnect")

\* faulty variant: the flag is assigned from the coroutine's place among the
\* coroutines entered, so that of the one entered last is what stays
ResumeFlag_OrderOfEntry(i, value) ==
    IF \E j \in DOMAIN coroutines : j > i /\ coroutines[j].at = "returned"
    THEN is_connected
    ELSE value

\* self._is_connected = True / self._is_connected = False, the statement
\* after the await
ResumeFlag(i, value) == value

\* the statements after the await, run with the outcome of the handle's
\* coroutine: the assignment of the flag and the return, or the exception
Resume(i, value, said) ==
    LET c == coroutines[i] IN
    \E o \in VoidOutcomes :
    /\ calls' = <<ClientCall(c.on, c.op, <<>>, Nothing, o)>>
    /\ IF o.kind = "ok"
       THEN /\ is_connected' = ResumeFlag(i, value)
            /\ phase' = IF value THEN "connected" ELSE "disconnected"
            /\ result' = Return(c.op, <<>>, <<said>>)
            /\ coroutines' = [coroutines EXCEPT ![i] = Ended(c, "returned", Completed + 1)]
       ELSE /\ UNCHANGED <<is_connected, phase>>
            /\ result' = Propagate(c.op, <<>>, o.exc)
            /\ coroutines' = [coroutines EXCEPT ![i] = Ended(c, "raised", Completed + 1)]
    /\ awaited' = NoCoroutine
    /\ UNCHANGED <<client, is_multi_client, server_vars, mode, factory, made>>

ResumeConnect ==
    \E i \in DOMAIN coroutines :
    /\ coroutines[i].at = "await"
    /\ coroutines[i].op = "connect"
    /\ Resume(i, TRUE, "Connection successful")

ResumeDisconnect ==
    \E i \in DOMAIN coroutines :
    /\ coroutines[i].at = "await"
    /\ coroutines[i].op = "disconnect"
    /\ Resume(i, FALSE, "Disconnected")

\* the service before the coroutines are entered: as constructed, as a
\* create() that succeeded left it, or as a disconnect() after that left it
InterleaveInit ==
    /\ is_running = FALSE
    /\ host = DefaultHost
    /\ port = DefaultPort
    /\ server_name = ""
    /\ calls = <<>>
    /\ compiles = 0
    /\ result = NoResult
    /\ started_with = <<>>
    /\ tool_input = <<>>
    /\ delivered = NothingDelivered
    /\ replaced = NoneValue
    /\ tables = Nothing
    /\ \E t \in Targets :
          \/ /\ client = NoClient
             /\ is_connected = FALSE
             /\ is_multi_client = FALSE
             /\ phase = "none"
          \/ /\ client = IF t[1] = "configs" THEN Router(t[2]) ELSE Session(t[2])
             /\ is_multi_client = (t[1] = "configs")
             /\ \/ is_connected = TRUE /\ phase = "created"
                \/ is_connected = FALSE /\ phase = "disconnected"
    /\ awaited = NoCoroutine
    /\ coroutines = <<>>
    /\ made = {}
    /\ mode = "client_and_server"
    /\ factory = Constructed(mode, NewFactory)

InterleaveNext ==
    \/ EnterConnect
    \/ EnterDisconnect
    \/ ResumeConnect
    \/ ResumeDisconnect

SpecInterleave == InterleaveInit /\ [][InterleaveNext]_vars

(***************************************************************************)
(* MCPClientService.get_langchain_prompt_async / get_langchain_prompt_sync *)
(* fetch the prompt, a list of mappings with optional "role" and "content" *)
(* keys, and build a chat-prompt template from it.                         *)
(***************************************************************************)
MaxEntries == 2
Roles == {"user", "assistant", "system", "tool"}
\* the entries a server hands out: with both keys, without "role", without
\* "content"
Entries ==
    {[role |-> r, content |-> "Hello"] : r \in Roles}
        \cup {[content |-> "Hello"], [role |-> "user"]}
McpPrompts == UNION {[1 .. n -> Entries] : n \in 0 .. MaxEntries}
\* get_prompt() of a session: a prompt, or an exception
PromptOutcomes ==
    {Returned(<<"list", p>>) : p \in McpPrompts} \cup {Raised(e) : e \in HandleExceptions}
TargetServers == {NoneValue} \cup {<<"str", s>> : s \in ServerNames}
\* the truth value of target_server
Truthy(target_server) == target_server # NoneValue /\ target_server[2] # ""

\* msg.get(key, default)
Get(msg, key, default) == IF key \in DOMAIN msg THEN msg[key] ELSE default
HumanMessage(content) == [type |-> "HumanMessage", content |-> content]
AIMessage(content) == [type |-> "AIMessage", content |-> content]
ChatMessage(role, content) == [type |-> "ChatMessage", role |-> role, content |-> content]
\* MessagesPlaceholder(variable_name="chat_history")
MessagesPlaceholder == [type |-> "MessagesPlaceholder", variable_name |-> "chat_history"]
\* ChatPromptTemplate.from_messages(messages)
ChatPromptTemplate(messages) == <<"ChatPromptTemplate", messages>>

\* faulty variant: a "system" entry becomes a system message
ToMessage_SystemMessage(msg) ==
    IF Get(msg, "role", "") = "user"
    THEN HumanMessage(Get(msg, "content", ""))
    ELSE IF Get(msg, "role", "") = "assistant"
    THEN AIMessage(Get(msg, "content", ""))
    ELSE IF Get(msg, "role", "system") = "system"
    THEN [type |-> "SystemMessage", content |-> Get(msg, "content", "")]
    ELSE ChatMessage(Get(msg, "role", "system"), Get(msg, "content", ""))

\* the body of "for msg in mcp_prompt"
ToMessage(msg) ==
    IF Get(msg, "role", "") = "user"
    THEN HumanMessage(Get(msg, "content", ""))
    ELSE IF Get(msg, "role", "") = "assistant"
    THEN AIMessage(Get(msg, "content", ""))
    ELSE ChatMessage(Get(msg, "role", "system"), Get(msg, "content", ""))

\* messages = []; for msg in mcp_prompt: messages.append(...)
RECURSIVE ToMessages(_)
ToMessages(mcp_prompt) ==
    IF mcp_prompt = <<>> THEN <<>>
    ELSE <<ToMessage(Head(mcp_prompt))>> \o ToMessages(Tail(mcp_prompt))

\* the template of the messages, with the placeholder after them if asked for
BuildTemplate(mcp_prompt, include_messages_placeholder) ==
    IF include_messages_placeholder
    THEN ChatPromptTemplate(ToMessages(mcp_prompt) \o <<MessagesPlaceholder>>)
    ELSE ChatPromptTemplate(ToMessages(mcp_prompt))

\* the runs of an operation that fetches the prompt and builds the template
TemplateRuns(fetches, include_messages_placeholder) ==
    {Run(r.calls, IF r.out.kind = "ok"
                  THEN Returned(BuildTemplate(r.out.ret[2], include_messages_placeholder))
                  ELSE r.out) : r \in fetches}

\* get_langchain_prompt_async(target_server=None, include_messages_placeholder=True)
GetLangchainPromptAsync(target_server, include_messages_placeholder) ==
    LET a == <<target_server, include_messages_placeholder>>
        fetches ==
            IF is_multi_client /\ Truthy(target_server)
            THEN UNION {LET resolve == ClientCall(client, "get_client", <<target_server[2]>>,
                                                  Nothing, g) IN
                        IF g.kind = "raise" THEN {Run(<<resolve>>, g)}
                        ELSE IF g.ret = NoneValue THEN {Run(<<resolve>>, Returned(EmptyList))}
                        ELSE {Run(<<resolve, ClientCall(g.ret, "get_prompt", <<>>, Nothing, o)>>,
                                  o) : o \in PromptOutcomes}
                        : g \in ResolveOutcomes(client, target_server[2])}
            ELSE {Run(<<ClientCall(client, "get_prompt", <<>>, Nothing, o)>>, o) :
                     o \in PromptOutcomes}
    IN /\ IF ~Gate THEN Refuse("get_langchain_prompt_async", a)
          ELSE Finish("get_langchain_prompt_async", a,
                      TemplateRuns(fetches, include_messages_placeholder))
       /\ UNCHANGED client_frame

\* get_langchain_prompt_sync(target_server=None, include_messages_placeholder=True)
GetLangchainPromptSync(target_server, include_messages_placeholder) ==
    LET a == <<target_server, include_messages_placeholder>>
        pargs == IF is_multi_client /\ Truthy(target_server)
                 THEN <<target_server[2]>> ELSE <<>>
        fetches == {Run(<<ClientCall(client, "get_prompt", pargs, Nothing, o)>>, o) :
                       o \in PromptOutcomes}
    IN /\ IF ~Gate THEN Refuse("get_langchain_prompt_sync", a)
          ELSE Finish("get_langchain_prompt_sync", a,
                      TemplateRuns(fetches, include_messages_placeholder))
       /\ UNCHANGED client_frame

\* SpecPrompt: a client is created and its prompt is fetched as a template
PromptNext ==
    \/ \E t \in Targets : Direct(Create(t, "sse", NoneValue, NoneValue))
    \/ Direct(Disconnect)
    \/ \E s \in TargetServers, b \in BOOLEAN : Direct(GetLangchainPromptAsync(s, b))
    \/ \E s \in TargetServers, b \in BOOLEAN : Direct(GetLangchainPromptSync(s, b))

SpecPrompt == Init /\ [][PromptNext]_vars

(***************************************************************************)
(* The synchronous variants of MCPClientService: list_tools_sync,          *)
(* get_tools, set_prompt, get_prompt_sync and get_prompt_by_target call    *)
(* one primitive of the handle, with the target server as an argument in   *)
(* multi mode when one is given.                                           *)
(***************************************************************************)
PromptMsgs == {<<"list", <<[role |-> "user", content |-> "Hello"]>>>>}
\* the positional arguments of the primitive
WithTarget(pargs, target_server) ==
    IF is_multi_client /\ Truthy(target_server) THEN pargs \o <<target_server[2]>> ELSE pargs

\* list_tools_sync(target_server=None)
ListToolsSync(target_server) ==
    LET a == <<target_server>> IN
    /\ IF ~Gate THEN Refuse("list_tools_sync", a)
       ELSE Finish("list_tools_sync", a,
                   Delegate(client, "list_tools", WithTarget(<<>>, target_server), Nothing))
    /\ UNCHANGED client_frame

\* get_tools(target_server=None)
GetTools(target_server) ==
    LET a == <<target_server>> IN
    /\ IF ~Gate THEN Refuse("get_tools", a)
       ELSE Finish("get_tools", a,
                   Delegate(client, "get_tools", WithTarget(<<>>, target_server), Nothing))
    /\ UNCHANGED client_frame

\* set_prompt(prompt_msgs, target_server=None): what the primitive returns
\* is dropped
SetPrompt(prompt_msgs, target_server) ==
    LET a == <<prompt_msgs, target_server>> IN
    /\ IF ~Gate THEN Refuse("set_prompt", a)
       ELSE Finish("set_prompt", a,
                   {Run(r.calls, IF r.out.kind = "ok" THEN Returned(NoneValue) ELSE r.out) :
                       r \in Delegate(client, "set_prompt",
                                      WithTarget(<<prompt_msgs>>, target_server), Nothing)})
    /\ UNCHANGED client_frame

\* get_prompt_sync(target_server=None)
GetPromptSync(target_server) ==
    LET a == <<target_server>> IN
    /\ IF ~Gate THEN Refuse("get_prompt_sync", a)
       ELSE Finish("get_prompt_sync", a,
                   Delegate(client, "get_prompt", WithTarget(<<>>, target_server), Nothing))
    /\ UNCHANGED client_frame

\* get_prompt_by_target(target_server=None)
GetPromptByTarget(target_server) ==
    LET a == <<target_server>> IN
    /\ IF ~Gate THEN Refuse("get_prompt_by_target", a)
       ELSE Finish("get_prompt_by_target", a,
                   Delegate(client, "get_prompt", WithTarget(<<>>, target_server), Nothing))
    /\ UNCHANGED client_frame

(***************************************************************************)
(* SpecServices: the operations of the server service and of the client    *)
(* service (connect to list_prompts), in any order.                        *)
(***************************************************************************)
ServicesNext ==
    \/ Direct(Start(DefaultHost, DefaultPort))
    \/ Direct(Stop)
    \/ Direct(GetUrl)
    \/ Direct(AddTool("echo", "", <<Line(0, "return len(kwargs)")>>, "python"))
    \/ \E n \in ResourceNames : Direct(AddResource(n, <<"A", "B">>, ""))
    \/ \E n \in PromptNames, c \in PromptContents : Direct(AddPrompt(n, c, ""))
    \/ \E t \in Targets : Direct(Create(t, "sse", NoneValue, NoneValue))
    \/ Direct(Connect)
    \/ Direct(Disconnect)
    \/ \E s \in ServerNames, t \in ToolNamesOfServer : Direct(ClientCallTool(s, t, Nothing))
    \/ \E b \in IncludePrefix : Direct(ListTools(b))
    \/ \E s \in ServerNames : Direct(ListResources(s))
    \/ \E r \in ResourceNamesOfServer, s \in ServerNames : Direct(ReadResource(r, s))
    \/ \E s \in ServerNames : Direct(ListPrompts(s))
    \/ \E p \in PromptNamesOfServer, s \in ServerNames : Direct(GetPrompt(p, NoneValue, s))
    \/ \E t \in TargetServers : Direct(ListToolsSync(t))
    \/ \E t \in TargetServers : Direct(GetTools(t))
    \/ \E m \in PromptMsgs, t \in TargetServers : Direct(SetPrompt(m, t))
    \/ \E t \in TargetServers : Direct(GetPromptSync(t))
    \/ \E t \in TargetServers : Direct(GetPromptByTarget(t))

SpecServices == Init /\ [][ServicesNext]_vars

(***************************************************************************)
(* MCPToolkit.get_client_service / get_server_service, and the assignments *)
(* to the toolkit's fields that reach their "is None" branches.            *)
(***************************************************************************)
toolkit_frame == <<server_vars, client_vars, awaited, coroutines, made>>

\* faulty variant: the accessor does not test the mode
GetClientService_NoModeTest ==
    /\ LET f == IF factory.client_service = NoneValue
                THEN InitClientService(factory) ELSE factory
       IN /\ factory' = f
          /\ result' = Return("get_client_service", <<>>, f.client_service)
    /\ calls' = <<>>
    /\ UNCHANGED <<mode, toolkit_frame>>

GetClientService ==
    /\ IF mode \notin ClientModes
       THEN /\ result' = RaiseValueError("get_client_service", <<>>,
                            <<"Current mode '", mode, "' does not support client services">>)
            /\ UNCHANGED factory
       ELSE LET f == IF factory.client_service = NoneValue
                     THEN InitClientService(factory) ELSE factory
            IN /\ factory' = f
               /\ result' = Return("get_client_service", <<>>, f.client_service)
    /\ calls' = <<>>
    /\ UNCHANGED <<mode, toolkit_frame>>

GetServerService ==
    /\ IF mode \notin ServerModes
       THEN /\ result' = RaiseValueError("get_server_service", <<>>,
                            <<"Current mode '", mode, "' does not support server services">>)
            /\ UNCHANGED factory
       ELSE LET f == IF factory.server_service = NoneValue
                     THEN InitServerService(factory) ELSE factory
            IN /\ factory' = f
               /\ result' = Return("get_server_service", <<>>, f.server_service)
    /\ calls' = <<>>
    /\ UNCHANGED <<mode, toolkit_frame>>

\* toolkit.factory.init_client_service() called by the owner of the toolkit
FactoryInitClientService ==
    /\ Serial(factory.client_service) <= MaxInstances
    /\ factory' = InitClientService(factory)
    /\ result' = Return("init_client_service", <<>>, factory'.client_service)
    /\ calls' = <<>>
    /\ UNCHANGED <<mode, toolkit_frame>>

\* toolkit.factory.init_server_service() called by the owner of the toolkit
FactoryInitServerService ==
    /\ Serial(factory.server_service) <= MaxInstances
    /\ factory' = InitServerService(factory)
    /\ result' = Return("init_server_service", <<>>, factory'.server_service)
    /\ calls' = <<>>
    /\ UNCHANGED <<mode, toolkit_frame>>

\* toolkit.mode = m (the fields of the toolkit are assignable)
SetMode(m) ==
    /\ mode' = m
    /\ result' = Return("mode", <<m>>, NoneValue)
    /\ calls' = <<>>
    /\ UNCHANGED <<factory, toolkit_frame>>

\* toolkit.factory = MCPToolFactory()
SetFactory ==
    /\ factory' = NewFactory
    /\ result' = Return("factory", <<>>, NoneValue)
    /\ calls' = <<>>
    /\ UNCHANGED <<mode, toolkit_frame>>

\* SpecToolkit: a toolkit constructed in any mode with either factory
ToolkitInit ==
    /\ is_running = FALSE
    /\ host = DefaultHost
    /\ port = DefaultPort
    /\ server_name = ""
    /\ calls = <<>>
    /\ compiles = 0
    /\ started_with = <<>>
    /\ tool_input = <<>>
    /\ delivered = NothingDelivered
    /\ replaced = NoneValue
    /\ tables = Nothing
    /\ client = NoClient
    /\ is_connected = FALSE
    /\ is_multi_client = FALSE
    /\ phase = "none"
    /\ awaited = NoCoroutine
    /\ coroutines = <<>>
    /\ made = {}
    /\ mode \in Modes
    /\ \E given \in GivenFactories :
          /\ factory = Constructed(mode, given)
          /\ result = Return("MCPToolkit", <<mode, given>>, NoneValue)

ToolkitNext ==
    \/ GetClientService
    \/ GetServerService
    \/ FactoryInitClientService
    \/ FactoryInitServerService
    \/ \E m \in Modes : SetMode(m)
    \/ SetFactory

SpecToolkit == ToolkitInit /\ [][ToolkitNext]_vars

(***************************************************************************)
(* MCPToolFactory.create_client_tools / create_server_tools /              *)
(* create_all_tools, MCPToolkit.get_tools, and the _run of the client      *)
(* tools.  A tool holds the service its constructor was given.  client,    *)
(* is_connected, ... are the fields of the client service the factory      *)
(* holds; the fields of a service the factory has dropped are not kept, so *)
(* only the tools built around the service held are run.                   *)
(***************************************************************************)
ClientToolNames ==
    <<"client_create", "client_call_tool", "client_list_tools", "client_list_resources",
      "client_read_resource", "client_list_prompts", "client_get_prompt",
      "get_langchain_tools", "get_langchain_prompt">>
ServerToolNames ==
    <<"server_start", "server_stop", "server_get_url", "server_add_tool",
      "server_add_resource", "server_add_prompt">>

\* ClientCreateTool(client_service=...), ServerStartTool(server_service=...), ...
Tool(name, service) == [name |-> name, service |-> service]

\* faulty variant: every tool is built around a service of its own
ToolsOf_ServicePerTool(names, service) ==
    [i \in DOMAIN names |-> Tool(names[i], <<service[1], service[2] + i>>)]

\* the list of tools, each constructed with the service the factory holds
ToolsOf(names, service) == [i \in DOMAIN names |-> Tool(names[i], service)]

Range(s) == {s[i] : i \in DOMAIN s}

\* create_client_tools / create_server_tools on a factory that holds the service
ClientTools(f) == ToolsOf(ClientToolNames, f.client_service)
ServerTools(f) == ToolsOf(ServerToolNames, f.server_service)
\* create_all_tools: the tools of the services that are there
AllTools(f) ==
    (IF f.client_service # NoneValue THEN ClientTools(f) ELSE <<>>)
        \o (IF f.server_service # NoneValue THEN ServerTools(f) ELSE <<>>)

\* the list goes to the caller
Produce(op, tools) ==
    /\ result' = Return(op, <<>>, tools)
    /\ made' = made \cup Range(tools)

tools_frame == <<factory, mode, server_vars, client_vars, coroutines>>

CreateClientToolsOn(op) ==
    IF factory.client_service = NoneValue
    THEN /\ result' = RaiseValueError(op, <<>>,
                <<"Client service not initialized, please call init_client_service first">>)
         /\ UNCHANGED made
    ELSE Produce(op, ClientTools(factory))

CreateServerToolsOn(op) ==
    IF factory.server_service = NoneValue
    THEN /\ result' = RaiseValueError(op, <<>>,
                <<"Server service not initialized, please call init_server_service first">>)
         /\ UNCHANGED made
    ELSE Produce(op, ServerTools(factory))

CreateClientTools ==
    /\ CreateClientToolsOn("create_client_tools")
    /\ calls' = <<>>
    /\ awaited' = NoCoroutine
    /\ UNCHANGED tools_frame

CreateServerTools ==
    /\ CreateServerToolsOn("create_server_tools")
    /\ calls' = <<>>
    /\ awaited' = NoCoroutine
    /\ UNCHANGED tools_frame

CreateAllTools ==
    /\ Produce("create_all_tools", AllTools(factory))
    /\ calls' = <<>>
    /\ awaited' = NoCoroutine
    /\ UNCHANGED tools_frame

\* MCPToolkit.get_tools: the three branches on the mode
ToolkitGetTools ==
    /\ IF mode = "client" THEN CreateClientToolsOn("get_tools")
       ELSE IF mode = "server" THEN CreateServerToolsOn("get_tools")
       ELSE Produce("get_tools", AllTools(factory))
    /\ calls' = <<>>
    /\ awaited' = NoCoroutine
    /\ UNCHANGED tools_frame

\* factory.init_client_service() once more: the factory holds a new
\* MCPClientService(), whose fields are those __init__ assigns
ReplaceClientService ==
    /\ Serial(factory.client_service) < MaxInstances
    /\ factory' = InitClientService(factory)
    /\ result' = Return("init_client_service", <<>>, factory'.client_service)
    /\ client' = NoClient
    /\ is_connected' = FALSE
    /\ is_multi_client' = FALSE
    /\ phase' = "none"
    /\ calls' = <<>>
    /\ awaited' = NoCoroutine
    /\ UNCHANGED <<mode, server_vars, coroutines, made>>

\* factory.init_server_service() once more: a new MCPServerService()
ReplaceServerService ==
    /\ Serial(factory.server_service) < MaxInstances
    /\ factory' = InitServerService(factory)
    /\ result' = Return("init_server_service", <<>>, factory'.server_service)
    /\ is_running' = FALSE
    /\ host' = DefaultHost
    /\ port' = DefaultPort
    /\ server_name' = ""
    /\ compiles' = 0
    /\ started_with' = <<>>
    /\ delivered' = NothingDelivered
    /\ replaced' = NoneValue
    /\ tables' = Nothing
    /\ calls' = <<>>
    /\ awaited' = NoCoroutine
    /\ UNCHANGED <<tool_input, mode, client_vars, coroutines, made>>

\* a tool the factory produced around the client service it holds
Runnable(name) ==
    {t \in made : t.name = name /\ t.service = factory.client_service}

\* ClientCreateTool._run(*args, **kwargs): the URL is the first positional
\* argument, the transport the keyword "transport_type" or "stdio"
ClientCreateToolRun(server_url, transport_type) ==
    /\ Runnable("client_create") # {}
    /\ Create(UrlTarget(server_url),
              IF transport_type = NoneValue THEN "stdio" ELSE transport_type[2],
              NoneValue, NoneValue)
    /\ awaited' = Coroutine("client_create", <<server_url, transport_type>>)
    /\ UNCHANGED <<mode, factory, coroutines, made>>

\* ClientCallToolTool._run(server_name, tool_name, arguments):
\* call_tool(server_name, tool_name, **arguments)
ClientCallToolToolRun(server, tool_name, arguments) ==
    /\ Runnable("client_call_tool") # {}
    /\ ClientCallTool(server, tool_name, arguments)
    /\ awaited' = Coroutine("client_call_tool", <<server, tool_name, arguments>>)
    /\ UNCHANGED <<mode, factory, coroutines, made>>

\* ClientReadResourceTool._run(resource_name, server_name):
\* read_resource(server_name, resource_name), both arguments by position
ClientReadResourceToolRun(resource_name, server) ==
    /\ Runnable("client_read_resource") # {}
    /\ ReadResource(server, resource_name)
    /\ awaited' = Coroutine("client_read_resource", <<resource_name, server>>)
    /\ UNCHANGED <<mode, factory, coroutines, made>>

ToolsNext ==
    \/ CreateClientTools
    \/ CreateServerTools
    \/ CreateAllTools
    \/ ToolkitGetTools
    \/ ReplaceClientService
    \/ ReplaceServerService
    \/ \E u \in ClientUrls, tr \in {NoneValue, <<"str", "sse">>} :
          ClientCreateToolRun(u, tr)
    \/ \E s \in ServerNames, t \in ToolNamesOfServer :
          ClientCallToolToolRun(s, t, Nothing)
    \/ \E r \in ResourceNamesOfServer, s \in ServerNames :
          ClientReadResourceToolRun(r, s)
    \/ \E c \in ServerConfigs :
          Direct(Create(ConfigsTarget(c), "sse", NoneValue, NoneValue))
    \/ Direct(Disconnect)

SpecTools == ToolkitInit /\ [][ToolsNext]_vars

(***************************************************************************)
(* Properties.                                                             *)
(***************************************************************************)
AddOps == {"add_tool", "add_resource", "add_prompt"}
Contains(msg, fragment) == \E i \in DOMAIN msg : msg[i] = fragment
HandleFailed(cs) == Len(cs) = 1 /\ cs[1].outcome.kind = "raise"
IsRuntimeError(r) == r.kind = "raise" /\ r.val[1] = "RuntimeError"

\* C1: on a server that is not running, add_tool, add_resource and add_prompt
\* return the error string containing "not currently running", raise nothing,
\* compile nothing, call no primitive of the handle and leave is_running,
\* host and port as they were.
C1_MutationsFailFastWhenNotRunning ==
    [][(~is_running /\ result'.op \in AddOps) =>
          /\ result'.kind = "return"
          /\ result'.val = NotRunningError
          /\ Contains(result'.val, "not currently running")
          /\ compiles' = 0
          /\ calls' = <<>>
          /\ UNCHANGED <<is_running, host, port>>]_vars

\* an add_tool refused after a start that failed
C1_Witness ==
    /\ ~is_running
    /\ started_with = <<>>
    /\ server_name = "mcp-server"
    /\ result.op = "add_tool"
    /\ result.kind = "return"
    /\ result.val = NotRunningError

\* C2: start on a running server returns the success string with the URL of
\* the host and port in force, whatever the arguments, does not call the
\* handle's start and changes neither host, port nor is_running.
C2_StartIdempotentWhileRunning ==
    [][(is_running /\ result'.op = "start") =>
          /\ result'.kind = "return"
          /\ result'.val = <<"Server is already running: ">> \o Url(host, port)
          /\ calls' = <<>>
          /\ UNCHANGED <<is_running, host, port>>]_vars

\* a start with other arguments answered with the URL in force
C2_Witness ==
    /\ is_running
    /\ result.op = "start"
    /\ result.kind = "return"
    /\ result.val[1] = "Server is already running: "
    /\ result.args # <<host, port>>
    /\ result.val = <<"Server is already running: ">> \o Url(host, port)

\* C3: when the handle's start fails, start raises a RuntimeError and
\* is_running, host and port keep the values they had before the call.
C3_FailedStartLeavesStateUnchanged ==
    [][(result'.op = "start" /\ HandleFailed(calls')) =>
          /\ IsRuntimeError(result')
          /\ UNCHANGED <<is_running, host, port>>]_vars

\* C4: stop on a server that is not running returns the "not running"
\* status, raises nothing, does not call the handle's stop and changes
\* nothing; on a running server whose handle stops, is_running becomes false.
C4_StopIdempotent ==
    [][(result'.op = "stop") =>
          IF ~is_running
          THEN /\ result'.kind = "return"
               /\ result'.val = NotRunningStatus
               /\ Contains(result'.val, "not currently running")
               /\ calls' = <<>>
               /\ UNCHANGED <<is_running, host, port, server_name>>
          ELSE /\ Len(calls') = 1
               /\ calls'[1].prim = "stop"
               /\ (calls'[1].outcome.kind = "ok" => ~is_running')]_vars

\* a second stop after a start and a stop
C4_Witness ==
    /\ ~is_running
    /\ started_with # <<>>
    /\ result.op = "stop"
    /\ result.val = NotRunningStatus
    /\ calls = <<>>

\* C5: get_url returns the "not running" status without calling the handle
\* when the server is not running; when it is running, it returns the
\* handle's URL if that is non-empty and otherwise http://{host}:{port} of
\* the start that made the server running.
C5_GetUrl ==
    result.op = "get_url" =>
        IF ~is_running
        THEN /\ result.kind = "return"
             /\ result.val = NotRunningStatus
             /\ calls = <<>>
        ELSE /\ Len(calls) = 1
             /\ calls[1].prim = "get_url"
             /\ (calls[1].outcome.kind = "ok" =>
                    /\ result.kind = "return"
                    /\ result.val = IF calls[1].outcome.ret # <<>>
                                    THEN calls[1].outcome.ret
                                    ELSE Url(started_with[1], started_with[2]))

\* the handle reports no URL on a server started on other than the defaults
C5_Witness ==
    /\ is_running
    /\ result.op = "get_url"
    /\ calls[1].outcome = Returned(<<>>)
    /\ started_with = <<"0.0.0.0", DefaultPort + 1>>
    /\ result.val = Url("0.0.0.0", DefaultPort + 1)

\* C6: while the server is running, host and port are the arguments of the
\* most recent start that succeeded, and no step from a running state to a
\* running state changes them.
C6_ConfigFixedWhileRunning ==
    [][/\ (is_running' => <<host', port'>> = started_with')
       /\ (is_running /\ is_running' => UNCHANGED <<host, port, started_with>>)]_vars

\* a start with other values on a running server
C6_Witness ==
    /\ is_running
    /\ result.op = "start"
    /\ calls = <<>>
    /\ result.args # started_with
    /\ <<host, port>> = started_with

\* C7: a failure raised by the handle in start, stop, get_url, add_tool,
\* add_resource or add_prompt reaches the caller as a RuntimeError whose
\* message carries the handle's message and whose cause is the handle's
\* exception; the caller never sees the handle's exception type.
C7_HandleFailuresWrapped ==
    \A i \in DOMAIN calls :
        calls[i].outcome.kind = "raise" =>
            /\ calls[i].prim \in {"start", "stop", "get_url"} \cup AddOps
            /\ result.op = calls[i].prim
            /\ IsRuntimeError(result)
            /\ result.val[1] \notin ExcTypes
            /\ Len(result.val[2]) = 2
            /\ result.val[2][2] = calls[i].outcome.exc.msg
            /\ result.val[3] = calls[i].outcome.exc

\* the handle's add_tool raised
C7_Witness ==
    /\ HandleFailed(calls)
    /\ calls[1].prim = "add_tool"
    /\ IsRuntimeError(result)
    /\ result.val[2] = <<"Failed to add tool: ", calls[1].outcome.exc.msg>>

\* C8: on a running server, add_tool with a code body that does not compile
\* raises a RuntimeError wrapping the compile error's message and does not
\* call the handle's add_tool.
C8_CompileFailureIsHard ==
    (result.op = "add_tool" /\ is_running
        /\ ~CompileToolCode(result.args[1], result.args[3]).ok) =>
            /\ IsRuntimeError(result)
            /\ result.val[2] = <<"Failed to add tool: ",
                                 CompileToolCode(result.args[1], result.args[3]).exc.msg>>
            /\ compiles = 1
            /\ calls = <<>>

\* a body whose lines are not indented alike
C8_Witness ==
    /\ is_running
    /\ result.op = "add_tool"
    /\ result.args[3] = <<Line(0, "pass"), Line(2, "pass")>>
    /\ IsRuntimeError(result)
    /\ calls = <<>>

\* the global names a line of code refers to
GlobalNames(text) ==
    CASE text = "return len(kwargs)" -> {"len"}
      [] text = "return open" -> {"open"}
      [] text \in {"globals()['hits'] = 1", "return globals().get('hits')"} ->
            {"globals"}
      [] OTHER -> {}
AllowListed == DOMAIN Sandbox
RefersOutsideAllowList(code) ==
    \E i \in DOMAIN code : ~(GlobalNames(code[i].text) \subseteq AllowListed)

\* C9: on a running server, add_tool with a code body that refers to a name
\* outside the allow-list fails with an error, registers nothing on the
\* handle and never returns the confirmation.
C9_NonAllowListedNameRejected ==
    (result.op = "add_tool" /\ is_running /\ RefersOutsideAllowList(result.args[3])) =>
        /\ result.kind = "raise"
        /\ calls = <<>>

\* the body evaluated as it stands, its names bound in the allow-listed
\* namespace and kwargs bound to the keyword arguments
DirectEval(code, kw) ==
    LET p == ParseBlock(code, -1)
    IN IF p.ok THEN ExecBody(p.stmts, 1, kw, Sandbox)
       ELSE Throw(p.exc.type, <<p.exc.msg>>)
ValidAllowListedBody(code) ==
    /\ ParseBlock(code, -1).ok
    /\ ~RefersOutsideAllowList(code)

\* C10: for a valid code body using only allow-listed names, the callable
\* add_tool registered returns, for any keyword arguments, what the body
\* itself evaluates to with those arguments bound to kwargs.
C10_RegisteredToolEvaluatesBody ==
    (result.op = "invoke" /\ ValidAllowListedBody(result.args[1][3])) =>
        LET d == DirectEval(result.args[1][3], result.args[2])
        IN /\ d.kind = "value"
           /\ result.kind = "return"
           /\ result.val[1] = d.v[1]
           /\ result.val = d.v

\* what add_tool, add_resource and add_prompt register, and where the handle
\* holds it
KindOf(op) ==
    CASE op = "add_tool" -> "tools"
      [] op = "add_resource" -> "resources"
      [] op = "add_prompt" -> "prompts"
Confirmation(r) ==
    CASE r.op = "add_tool" -> <<"Tool '", r.args[1], "' added to server">>
      [] r.op = "add_resource" -> <<"Resource '", r.args[1], "' added to server">>
      [] r.op = "add_prompt" -> <<"Prompt '", r.args[1], "' added to server">>
HoldsDefinitionOf(d, r) ==
    /\ r.args[1] \in DOMAIN d[KindOf(r.op)]
    /\ IF r.op = "add_tool"
       THEN d.tools[r.args[1]].fn = CompileToolCode(r.args[1], r.args[3]).fn
       ELSE d[KindOf(r.op)][r.args[1]] = r.args[2]
Compilable(r) == r.op = "add_tool" => CompileToolCode(r.args[1], r.args[3]).ok

\* C11: on a running server, adding a tool, resource or prompt under a name
\* the handle already holds is carried out like a first registration: the
\* handle's primitive is called once with the new definition; if it returns,
\* the confirmation is returned and the new definition is the one held under
\* the name; the only failure is the handle's own, wrapped.
C11_LastWriteWins ==
    [][(/\ is_running
        /\ result'.op \in AddOps
        /\ result'.args[1] \in DOMAIN delivered[KindOf(result'.op)]
        /\ Compilable(result')) =>
          /\ Len(calls') = 1
          /\ calls'[1].prim = result'.op
          /\ IF calls'[1].outcome.kind = "ok"
             THEN /\ result'.kind = "return"
                  /\ result'.val = Confirmation(result')
                  /\ HoldsDefinitionOf(delivered', result')
             ELSE /\ IsRuntimeError(result')
                  /\ result'.val[3] = calls'[1].outcome.exc
                  /\ delivered' = delivered]_vars

\* a resource added again with another content
C11_Witness ==
    /\ is_running
    /\ result.op = "add_resource"
    /\ result.kind = "return"
    /\ result.val = <<"Resource '", "cities", "' added to server">>
    /\ replaced # NoneValue
    /\ replaced[2] # result.args[2]
    /\ delivered.resources["cities"] = result.args[2]

\* C12: add_resource and add_prompt on a running server call the handle with
\* the name and the content exactly as given; when the handle accepts, the
\* content held under the name is the content given and the confirmation
\* returned contains the name.
C12_ContentVerbatim ==
    (is_running /\ result.op \in {"add_resource", "add_prompt"}) =>
        /\ Len(calls) = 1
        /\ calls[1].prim = result.op
        /\ calls[1].args = <<result.args[1], result.args[2]>>
        /\ calls[1].outcome.kind = "ok" =>
              /\ delivered[KindOf(result.op)][result.args[1]] = result.args[2]
              /\ result.kind = "return"
              /\ Contains(result.val, result.args[1])

\* the prompt "Hello, {name}!" registered with its placeholder
C12_Witness ==
    /\ is_running
    /\ result.op = "add_prompt"
    /\ result.args[2] = <<"Hello, {name}!">>
    /\ calls[1].args[2] = <<"Hello, {name}!">>
    /\ delivered.prompts["greeting"] = <<"Hello, {name}!">>
    /\ Contains(result.val, "greeting")

\* the tool an add_tool or a run is about
ActedOn(r) ==
    IF r.op = "add_tool" THEN {r.args[1]}
    ELSE IF r.op = "invoke" THEN {r.args[1][1]}
    ELSE {}

\* C13: the symbol table of a compilation is new (it holds the allow-listed
\* names, the builtins reference and the tool itself, nothing a run left
\* behind); compiling or running a tool leaves every other tool the handle
\* holds, and its symbol table, as they were; a tool that only reads the name
\* hits never sees the value another tool bound to it.
C13_SymbolTablePerTool ==
    [][/\ \A m \in DOMAIN delivered.tools :
             m \notin ActedOn(result') =>
                /\ m \in DOMAIN delivered'.tools
                /\ delivered'.tools[m] = delivered.tools[m]
                /\ tables'[delivered.tools[m].table] = tables[delivered.tools[m].table]
       /\ (result'.op = "add_tool" /\ Len(calls') = 1
             /\ calls'[1].outcome.kind = "ok") =>
                tables'[delivered'.tools[result'.args[1]].table]
                    = ExecGlobals(result'.args[1])
       /\ (result'.op = "invoke" /\ result'.args[1][3] = ReadHits) =>
                /\ result'.kind = "return"
                /\ result'.val = NoneValue]_vars

\* echo has bound hits in its table; len, added afterwards, reads hits and
\* finds nothing
C13_Witness ==
    /\ result.op = "invoke"
    /\ result.args[1][1] = "len"
    /\ result.args[1][3] = ReadHits
    /\ result.val = NoneValue
    /\ "echo" \in DOMAIN delivered.tools
    /\ "hits" \in DOMAIN tables[delivered.tools["echo"].table]
    /\ "hits" \notin DOMAIN tables[delivered.tools["len"].table]

DispatchOps == {"call_tool", "list_tools", "list_resources", "read_resource",
                "list_prompts", "get_prompt"}
ConversionOps == {"get_langchain_tools", "get_langchain_prompt"}
IsValueError(r, msg) == r.kind = "raise" /\ r.val[1] = "ValueError" /\ r.val[2] = msg

\* C14: a create on a client whose last completed lifecycle step is a create
\* or a connect (no disconnect since) raises ValueError "Client service
\* already connected", calls no constructor and leaves the handle, the mode
\* flag and the connected flag as they were, whatever the target.
C14_SecondCreateRefused ==
    [][(result'.op = "create" /\ phase \in {"created", "connected"}) =>
          /\ IsValueError(result', <<"Client service already connected">>)
          /\ calls' = <<>>
          /\ UNCHANGED <<client, is_multi_client, is_connected>>]_vars

\* a create with a URL refused on a multi-endpoint client
C14_Witness ==
    /\ result.op = "create"
    /\ result.args[1][1] = "url"
    /\ IsValueError(result, <<"Client service already connected">>)
    /\ client[1] = "router"
    /\ is_multi_client
    /\ is_connected
    /\ phase = "created"

\* C15, as stated: a dispatch operation on a client that was never created
\* fails with the creation-state error "Client not created".
C15_CreatedStateCheckedFirst ==
    (result.op \in DispatchOps /\ phase = "none" /\ client = NoClient) =>
        IsValueError(result, <<"Client not created">>)

\* C15, amended: a dispatch operation on a client that was never created
\* fails with the connection-state error "Client service not connected" (the
\* connected flag is tested first, the handle second) and calls no
\* collaborator.
C15_ConnectedStateCheckedFirst ==
    (result.op \in DispatchOps /\ phase = "none" /\ client = NoClient) =>
        /\ IsValueError(result, <<"Client service not connected">>)
        /\ calls = <<>>

\* call_tool on a fresh service
C15_Witness ==
    /\ result.op = "call_tool"
    /\ phase = "none"
    /\ client = NoClient
    /\ ~is_connected
    /\ result.kind = "raise"

\* C16: a dispatch or conversion operation raises ValueError "Client service
\* not connected" when the connected flag is false, and ValueError "Client
\* not created" when the flag is true and there is no handle; in both cases
\* it calls no collaborator.
C16_TwoGuards ==
    (result.op \in DispatchOps \cup ConversionOps) =>
        /\ ~is_connected =>
              /\ IsValueError(result, <<"Client service not connected">>)
              /\ calls = <<>>
        /\ (is_connected /\ client = NoClient) =>
              /\ IsValueError(result, <<"Client not created">>)
              /\ calls = <<>>

\* the connected flag set from outside on a service without a handle
C16_Witness ==
    /\ result.op = "get_langchain_prompt"
    /\ is_connected
    /\ client = NoClient
    /\ IsValueError(result, <<"Client not created">>)

\* C17, as stated: a dispatch operation on a handle that was created and
\* never connected fails fast.
C17_CreatedNeverConnectedFailsFast ==
    (result.op \in DispatchOps /\ phase = "created") =>
        /\ result.kind = "raise"
        /\ calls = <<>>

\* C17, amended: a dispatch operation fails fast (ValueError "Client service
\* not connected", no collaborator call) exactly when the client was never
\* created or its disconnect() completed last; on a handle that was created
\* and never connected the operation is delegated, because create() sets the
\* connected flag.
C17_FailsFastOnlyWhenNotConnected ==
    (result.op \in DispatchOps) =>
        /\ phase \in {"none", "disconnected"} =>
              /\ ~is_connected
              /\ IsValueError(result, <<"Client service not connected">>)
              /\ calls = <<>>
        /\ phase \in {"created", "connected"} =>
              /\ is_connected
              /\ calls # <<>>
              /\ calls[1].on = client

\* list_resources answered by the session of a client that never connected
C17_Witness ==
    /\ result.op = "list_resources"
    /\ phase = "created"
    /\ result.kind = "return"
    /\ Len(calls) = 1
    /\ calls[1].prim = "list_resources"

\* C18: a create with a URL and transport "sse" that succeeds returns a
\* string containing the URL and makes the session the handle; list_tools on
\* that client, connect() never called, calls the session's list_tools once,
\* without arguments, and returns what it returned.
C18_ListToolsAfterCreate ==
    /\ (result.op = "create" /\ result.kind = "return"
          /\ result.args[1][1] = "url" /\ result.args[2] = "sse") =>
             /\ Contains(result.val, result.args[1][2])
             /\ client = Session(result.args[1][2])
             /\ ~is_multi_client
             /\ phase = "created"
    /\ (result.op = "list_tools" /\ phase = "created" /\ client[1] = "session") =>
             /\ Len(calls) = 1
             /\ calls[1].on = client
             /\ calls[1].prim = "list_tools"
             /\ calls[1].args = <<>>
             /\ calls[1].kwargs = Nothing
             /\ calls[1].outcome.kind = "ok" =>
                   /\ result.kind = "return"
                   /\ result.val = calls[1].outcome.ret

\* the session's non-empty list handed on
C18_Witness ==
    /\ result.op = "list_tools"
    /\ phase = "created"
    /\ client = Session("http://localhost:8000/sse")
    /\ result.kind = "return"
    /\ result.val = <<"list", <<"item">>>>
    /\ calls[1].outcome.ret = result.val

\* C19: call_tool on a multi-endpoint client calls the router's call_tool
\* with the positional arguments (server, tool, kwargs as one mapping) and no
\* keyword arguments; on a single-endpoint client it calls the session's
\* call_tool with the tool name alone and the kwargs as keyword arguments.
C19_CallShapes ==
    (result.op = "call_tool" /\ is_connected) =>
        /\ Len(calls) = 1
        /\ calls[1].on = client
        /\ calls[1].prim = "call_tool"
        /\ IF is_multi_client
           THEN /\ client[1] = "router"
                /\ calls[1].args = <<result.args[1], result.args[2],
                                     <<"dict", result.args[3]>>>>
                /\ calls[1].kwargs = Nothing
           ELSE /\ client[1] \in {"session", "stdio"}
                /\ calls[1].args = <<result.args[2]>>
                /\ calls[1].kwargs = result.args[3]

\* call_tool(serverA, toolX, a=1) on a multi-endpoint client
C19_Witness ==
    /\ result.op = "call_tool"
    /\ is_multi_client
    /\ result.args = <<"serverA", "toolX", [k \in {"a"} |-> 1]>>
    /\ Len(calls) = 1
    /\ calls[1].args = <<"serverA", "toolX", <<"dict", [k \in {"a"} |-> 1]>>>>

ViaRouterOps == {"list_resources", "list_prompts", "read_resource", "get_prompt"}
ResolvedToNothing(cs) ==
    /\ Len(cs) >= 1
    /\ cs[1].prim = "get_client"
    /\ cs[1].outcome.kind = "ok"
    /\ cs[1].outcome.ret = NoneValue

\* C20: on a multi-endpoint client, when the router's get_client returns
\* nothing, list_resources and list_prompts return the empty list and
\* read_resource and get_prompt the empty mapping, after that one call of the
\* router; call_tool asks for no resolution, calls the router's call_tool
\* once and lets the router's exception through as it is.
C20_ResolutionMiss ==
    /\ (result.op \in ViaRouterOps /\ is_multi_client /\ ResolvedToNothing(calls)) =>
          /\ Len(calls) = 1
          /\ result.kind = "return"
          /\ result.val = IF result.op \in {"list_resources", "list_prompts"}
                          THEN EmptyList ELSE EmptyDict
    /\ (result.op = "call_tool" /\ is_multi_client /\ is_connected) =>
          /\ Len(calls) = 1
          /\ calls[1].prim = "call_tool"
          /\ calls[1].outcome.kind = "raise" =>
                result = Propagate("call_tool", result.args, calls[1].outcome.exc)

\* read_resource for the server name no mapping holds
C20_Witness ==
    /\ result.op = "read_resource"
    /\ is_multi_client
    /\ result.args[2] = "serverB"
    /\ result.args[2] \notin DOMAIN client[2]
    /\ ResolvedToNothing(calls)
    /\ result.kind = "return"
    /\ result.val = EmptyDict

\* C21: an exception raised by the session, the router or the router's
\* get_client during a dispatch operation reaches the caller as it is (same
\* type, same message, no cause added, no empty result in its place), and the
\* handle, the mode flag and the connected flag are left as they were.
C21_ExceptionsPropagateUnchanged ==
    [][(result'.op \in DispatchOps) =>
          \A i \in DOMAIN calls' :
             calls'[i].outcome.kind = "raise" =>
                /\ result' = [op |-> result'.op, args |-> result'.args, kind |-> "raise",
                              val |-> <<calls'[i].outcome.exc.type,
                                        <<calls'[i].outcome.exc.msg>>, NoCause>>]
                /\ UNCHANGED <<client, is_multi_client, is_connected>>]_vars

\* the router's get_client raised during a read_resource in multi mode
C21_Witness ==
    /\ is_multi_client
    /\ is_connected
    /\ result.op = "read_resource"
    /\ Len(calls) = 1
    /\ calls[1].prim = "get_client"
    /\ calls[1].outcome.kind = "raise"
    /\ result.kind = "raise"
    /\ result.val[1] = calls[1].outcome.exc.type

CreateSucceeded(r) == r.op = "create" /\ r.kind = "return"
GivenMapping(r) == r.args[1][1] = "configs"

\* C22: a create that succeeds sets the mode flag to multi exactly when its
\* target is a name-to-descriptor mapping, and every other step (connect,
\* disconnect, a dispatch or conversion call, the is_connected setter, a
\* create that fails) leaves the flag as it was; so the flag always tells
\* what the most recent successful create was given.
C22_ModeFixedAtCreate ==
    [][IF CreateSucceeded(result')
       THEN is_multi_client' = GivenMapping(result')
       ELSE is_multi_client' = is_multi_client]_vars

\* a create with a mapping has succeeded and the service is in multi mode
C22_Witness ==
    /\ CreateSucceeded(result)
    /\ GivenMapping(result)
    /\ is_multi_client
    /\ client = Router(result.args[1][2])

NeedsSession(r) == r.op \in DispatchOps \cup ConversionOps
Refused(r, cs) == IsValueError(r, <<"Client service not connected">>) /\ cs = <<>>
ConnectSucceeded(r) == r.op = "connect" /\ r.kind = "return"

\* C23: once disconnect() has completed, every step that is not a create()
\* call leaves the client disconnected, and a dispatch or conversion
\* operation taken then is refused.
C23_DisconnectedUntilCreate ==
    [][(phase = "disconnected" /\ result'.op # "create") =>
          /\ ~is_connected'
          /\ (NeedsSession(result') => Refused(result', calls'))]_vars

\* C23, amended: once disconnect() has completed, every step that is neither
\* a create() call nor a connect() that succeeds leaves the client
\* disconnected, and a dispatch or conversion operation taken then is refused
\* without a call to the handle.
C23_DisconnectedUntilCreateOrConnect ==
    [][(phase = "disconnected" /\ result'.op # "create" /\ ~ConnectSucceeded(result')) =>
          /\ phase' = "disconnected"
          /\ ~is_connected'
          /\ (NeedsSession(result') => Refused(result', calls'))]_vars

\* a read_resource refused on a handle whose disconnect has completed
C23_Witness ==
    /\ phase = "disconnected"
    /\ client # NoClient
    /\ ~is_connected
    /\ result.op = "read_resource"
    /\ Refused(result, calls)

Unsupported(r) ==
    /\ r.op = "create"
    /\ r.args[1][1] = "url"
    /\ r.args[2] \notin {"sse", "stdio"}

\* C24: on a service that is not connected, create with a URL and a
\* transport other than "sse" and "stdio" raises the ValueError "Unsupported
\* transport type: <transport>", calls no constructor and leaves the handle,
\* the mode flag and the connected flag as they were: a service without a
\* handle still has none and is not connected, so a further create is not
\* refused as already connected.
C24_UnsupportedTransport ==
    [][(~is_connected /\ Unsupported(result')) =>
          /\ IsValueError(result', <<"Unsupported transport type: ", result'.args[2]>>)
          /\ Contains(result'.val[2], result'.args[2])
          /\ calls' = <<>>
          /\ UNCHANGED <<client, is_multi_client, is_connected>>
          /\ (client = NoClient => client' = NoClient /\ ~is_connected')]_vars

\* a first create with transport "websocket" has failed on a fresh service
C24_Witness ==
    /\ phase = "none"
    /\ client = NoClient
    /\ ~is_connected
    /\ Unsupported(result)
    /\ result.args[2] = "websocket"
    /\ result.kind = "raise"
    /\ calls = <<>>

\* C25: without a handle, connect and disconnect raise the ValueError "Client
\* not created", call no collaborator and leave the flags as they were; with
\* a handle, each calls the primitive of its own name on the handle, once,
\* and when that returns the connected flag is true after connect and false
\* after disconnect, whatever the mode; handle and mode flag never change.
C25_ConnectDisconnect ==
    [][(result'.op \in {"connect", "disconnect"}) =>
          /\ UNCHANGED <<client, is_multi_client>>
          /\ IF client = NoClient
             THEN /\ IsValueError(result', <<"Client not created">>)
                  /\ calls' = <<>>
                  /\ UNCHANGED is_connected
             ELSE /\ Len(calls') = 1
                  /\ calls'[1].on = client
                  /\ calls'[1].prim = result'.op
                  /\ (calls'[1].outcome.kind = "ok" =>
                         /\ result'.kind = "return"
                         /\ is_connected' = (result'.op = "connect"))]_vars

\* a connect on a router has returned
C25_Witness ==
    /\ is_multi_client
    /\ client[1] = "router"
    /\ phase = "connected"
    /\ is_connected
    /\ result.op = "connect"
    /\ result.kind = "return"
    /\ calls[1].prim = "connect"

Counterpart(c) ==
    \/ /\ c.name = "async_start_server"
       /\ LET a == Bind(SyncSignature.start, c.given) IN Start(a[1], a[2])
    \/ /\ c.name = "async_stop_server"
       /\ Stop
    \/ /\ c.name = "async_get_url"
       /\ GetUrl
    \/ /\ c.name = "async_add_tool"
       /\ LET a == Bind(SyncSignature.add_tool, c.given) IN AddTool(a[1], a[2], a[3], a[4])
    \/ /\ c.name = "async_add_resource"
       /\ LET a == Bind(SyncSignature.add_resource, c.given) IN AddResource(a[1], a[2], a[3])
    \/ /\ c.name = "async_add_prompt"
       /\ LET a == Bind(SyncSignature.add_prompt, c.given) IN AddPrompt(a[1], a[2], a[3])

\* C26: driving a coroutine of async_start_server, async_stop_server,
\* async_get_url, async_add_tool, async_add_resource or async_add_prompt is
\* one step, and that step is a step of the synchronous method of the same
\* operation called with the arguments the coroutine's caller gave: the same
\* value or exception, the same calls to the handle, the same state after.
C26_AsyncIsSync ==
    [][awaited' # NoCoroutine => Counterpart(awaited')]_vars

\* async_start_server() with no argument has started the server on the
\* defaults of start()
C26_Witness ==
    /\ awaited = Coroutine("async_start_server", <<>>)
    /\ is_running
    /\ started_with = <<SyncSignature.start[1], SyncSignature.start[2]>>
    /\ result.op = "start"
    /\ result.kind = "return"

TemplateOps == {"get_langchain_prompt_async", "get_langchain_prompt_sync"}
\* the prompt the last operation fetched: what get_prompt returned, or the
\* empty list when the router resolved the server name to nothing
Fetched(cs) ==
    IF cs[Len(cs)].prim = "get_prompt" THEN cs[Len(cs)].outcome.ret[2] ELSE <<>>

\* C27: the template built from a prompt of n entries holds n messages in the
\* order of the entries, the i-th a HumanMessage for role "user", an
\* AIMessage for role "assistant" and a ChatMessage carrying the role for any
\* other role ("system" included; without a role, the role is "system"),
\* each with the entry's content; after them comes one MessagesPlaceholder
\* when include_messages_placeholder is true, and nothing otherwise.
C27_TemplateFromEntries ==
    (result.op \in TemplateOps /\ result.kind = "return") =>
        LET mcp_prompt == Fetched(calls)
            n == Len(mcp_prompt)
            messages == result.val[2]
        IN /\ result.val[1] = "ChatPromptTemplate"
           /\ Len(messages) = n + (IF result.args[2] THEN 1 ELSE 0)
           /\ \A i \in 1 .. n :
                 /\ messages[i].type =
                       (IF "role" \notin DOMAIN mcp_prompt[i] THEN "ChatMessage"
                        ELSE IF mcp_prompt[i].role = "user" THEN "HumanMessage"
                        ELSE IF mcp_prompt[i].role = "assistant" THEN "AIMessage"
                        ELSE "ChatMessage")
                 /\ (messages[i].type = "ChatMessage" =>
                        messages[i].role = (IF "role" \in DOMAIN mcp_prompt[i]
                                            THEN mcp_prompt[i].role ELSE "system"))
                 /\ messages[i].content = (IF "content" \in DOMAIN mcp_prompt[i]
                                           THEN mcp_prompt[i].content ELSE "")
           /\ (result.args[2] => messages[n + 1] = MessagesPlaceholder)

\* a template of a "system" entry and a "user" entry with the placeholder
C27_Witness ==
    /\ result.op = "get_langchain_prompt_async"
    /\ result.kind = "return"
    /\ result.args[2]
    /\ Len(calls) = 1
    /\ Len(Fetched(calls)) = 2
    /\ Fetched(calls)[1] = [role |-> "system", content |-> "Hello"]
    /\ Fetched(calls)[2] = [role |-> "user", content |-> "Hello"]
    /\ result.val[2] = <<ChatMessage("system", "Hello"), HumanMessage("Hello"),
                         MessagesPlaceholder>>

\* C29: get_client_service raises the ValueError naming the mode when the
\* mode is "server" and get_server_service when it is "client"; in the other
\* modes each returns the service the factory holds, which is not None; and
\* the constructor builds a client service exactly when the mode is "client"
\* or "client_and_server" and a server service exactly when it is "server"
\* or "client_and_server", leaving the other service of the factory it was
\* given as it was.
C29_ModeGatesServices ==
    /\ result.op = "get_client_service" =>
          IF mode = "server"
          THEN IsValueError(result, <<"Current mode '", "server",
                                      "' does not support client services">>)
          ELSE /\ result.kind = "return"
               /\ result.val # NoneValue
               /\ result.val = factory.client_service
    /\ result.op = "get_server_service" =>
          IF mode = "client"
          THEN IsValueError(result, <<"Current mode '", "client",
                                      "' does not support server services">>)
          ELSE /\ result.kind = "return"
               /\ result.val # NoneValue
               /\ result.val = factory.server_service
    /\ result.op = "MCPToolkit" =>
          LET given == result.args[2] IN
          /\ (factory.client_service # given.client_service) <=> (mode \in ClientModes)
          /\ (factory.server_service # given.server_service) <=> (mode \in ServerModes)
          /\ (mode \in ClientModes => factory.client_service # NoneValue)
          /\ (mode \in ServerModes => factory.server_service # NoneValue)

\* get_client_service has been refused on a toolkit in mode "server"
C29_Witness ==
    /\ mode = "server"
    /\ result.op = "get_client_service"
    /\ result.kind = "raise"
    /\ factory.server_service # NoneValue

C31_FailedConnectKeepsFlag ==
    [][(result'.op \in {"connect", "disconnect"} /\ HandleFailed(calls')) =>
          /\ calls'[1].prim = result'.op
          /\ result' = Propagate(result'.op, <<>>, calls'[1].outcome.exc)
          /\ is_connected' = is_connected
          /\ UNCHANGED <<client, is_multi_client>>]_vars

\* a client that had been disconnected called connect(), the handle's connect
\* raised, and the client is still not connected
C31_Witness ==
    /\ phase = "disconnected"
    /\ client # NoClient
    /\ result.op = "connect"
    /\ result.kind = "raise"
    /\ HandleFailed(calls)
    /\ calls[1].prim = "connect"
    /\ ~is_connected

\* C32: in every state reached through create, connect, disconnect, the
\* dispatch and the conversion operations (the is_connected setter is not
\* used), a connected flag that is true comes with a handle; so none of the
\* dispatch or conversion operations ever ends with the ValueError "Client
\* not created", and on a client that has no handle each of them ends with
\* the ValueError "Client service not connected" and calls no collaborator.
C32_ConnectedImpliesHandle ==
    /\ is_connected => client # NoClient
    /\ (result.op \in DispatchOps \cup ConversionOps) =>
          ~IsValueError(result, <<"Client not created">>)
    /\ (client = NoClient /\ result.op \in DispatchOps \cup ConversionOps) =>
          /\ IsValueError(result, <<"Client service not connected">>)
          /\ calls = <<>>

\* a dispatch operation was refused on a client that has no handle
C32_Witness ==
    /\ client = NoClient
    /\ ~is_connected
    /\ result.op = "read_resource"
    /\ IsValueError(result, <<"Client service not connected">>)
    /\ calls = <<>>

\* the last operation was a stop in which the handle's stop raised
StopFailed == result.op = "stop" /\ HandleFailed(calls) /\ IsRuntimeError(result)

\* C33: when the handle's stop raises on a running server, stop() raises the
\* RuntimeError "Failed to stop server: <message>" caused by the handle's
\* exception and is_running stays true with host and port unchanged; the
\* operation that follows is treated as on a running server: a stop() calls
\* the handle's stop again, and add_tool, add_resource and add_prompt are not
\* answered with the "not currently running" error.
C33_FailedStopStaysRunning ==
    [][/\ (is_running /\ result'.op = "stop" /\ HandleFailed(calls')) =>
             /\ result' = RaiseRuntimeError("stop", <<>>, "Failed to stop server: ",
                                            calls'[1].outcome.exc)
             /\ is_running'
             /\ UNCHANGED <<host, port>>
       /\ (StopFailed /\ result'.op = "stop") =>
             /\ Len(calls') = 1
             /\ calls'[1].prim = "stop"
       /\ (StopFailed /\ result'.op \in AddOps) =>
             /\ result'.val # NotRunningError
             /\ (calls' # <<>> \/ compiles' = 1)]_vars

\* a stop on a running server has failed in the handle
C33_Witness ==
    /\ StopFailed
    /\ is_running
    /\ started_with # <<>>
    /\ result.val[2] = <<"Failed to stop server: ", calls[1].outcome.exc.msg>>

\* connect() was entered, disconnect() was entered after it, no other
\* coroutine was, connect() has ended and disconnect() has returned
ConnectThenDisconnectEnded ==
    /\ Len(coroutines) = 2
    /\ coroutines[1].op = "connect"
    /\ coroutines[2].op = "disconnect"
    /\ coroutines[1].at # "await"
    /\ coroutines[2].at = "returned"

\* C34 as stated: once a connect() and a disconnect() entered after it have
\* both ended, the disconnect() having returned, the service is not
\* connected, however the two were interleaved at their awaits.
C34_DisconnectEnteredLastWins ==
    ConnectThenDisconnectEnded => ~is_connected

\* C34: once a connect() and a disconnect() entered after it have both ended,
\* the disconnect() having returned, the connected flag is the one assigned
\* after the handle call that returned last: the service is connected exactly
\* when connect() returned and the handle's connect returned after the
\* handle's disconnect, and not connected otherwise.
C34_HandleCallReturnedLastWins ==
    ConnectThenDisconnectEnded =>
        (is_connected <=> /\ coroutines[1].at = "returned"
                          /\ coroutines[1].done > coroutines[2].done)

\* both coroutines were suspended together, the handle's disconnect returned
\* first and the handle's connect after it: the service is connected
C34_Witness ==
    /\ ConnectThenDisconnectEnded
    /\ coroutines[1].at = "returned"
    /\ coroutines[1].done = 2
    /\ coroutines[2].done = 1
    /\ result.op = "connect"
    /\ is_connected

\* C35: when the client_read_resource tool is run with resource name R and
\* server name S, the client service's read_resource receives R as its
\* resource name and S as its server name: on a connected service, a
\* router is asked for the sub-session of S, and the handle that reads is
\* asked for the resource R.
C35_ToolReadsNamedResource ==
    (awaited.name = "client_read_resource" /\ calls # <<>>) =>
        /\ result.op = "read_resource"
        /\ result.args = awaited.given
        /\ \A i \in DOMAIN calls :
              /\ calls[i].prim = "get_client" => calls[i].args = <<awaited.given[2]>>
              /\ calls[i].prim = "read_resource" => calls[i].args = <<awaited.given[1]>>

ProducingOps == {"create_client_tools", "create_server_tools", "create_all_tools",
                 "get_tools"}

\* C37: every list of tools the factory produces (create_client_tools,
\* create_server_tools, create_all_tools, MCPToolkit.get_tools) leaves the
\* factory's services as they are and holds, in each client tool, the client
\* service the factory holds and, in each server tool, its server service;
\* the service the factory holds changes only in init_client_service /
\* init_server_service.  So the client tools produced between two
\* init_client_service calls all hold one service, and a client tool that
\* reaches a handle reaches the handle that service holds, the one create
\* stored.
C37_ToolsShareTheService ==
    [][/\ (result'.op \in ProducingOps /\ result'.kind = "return") =>
             /\ factory' = factory
             /\ \A i \in DOMAIN result'.val :
                   LET t == result'.val[i] IN
                   /\ t.name \in Range(ClientToolNames) =>
                         t.service = factory.client_service
                   /\ t.name \in Range(ServerToolNames) =>
                         t.service = factory.server_service
                   /\ t \in made'
       /\ factory'.client_service # factory.client_service =>
             result'.op = "init_client_service"
       /\ factory'.server_service # factory.server_service =>
             result'.op = "init_server_service"
       /\ (awaited'.name \in {"client_call_tool", "client_read_resource"}
              /\ calls' # <<>>) =>
             /\ calls'[1].on = client
             /\ client # NoClient]_vars

\* the factory's client service was replaced, tools were produced before and
\* after, the client_create tool of the new service created a stdio handle
\* and the client_call_tool tool got its answer from that handle
C37_Witness ==
    /\ factory.client_service = <<"MCPClientService", 2>>
    /\ Tool("client_call_tool", <<"MCPClientService", 1>>) \in made
    /\ Tool("client_call_tool", <<"MCPClientService", 2>>) \in made
    /\ client # NoClient
    /\ client[1] = "stdio"
    /\ awaited.name = "client_call_tool"
    /\ result.kind = "return"
    /\ Len(calls) = 1
    /\ calls[1].on = client

\* C36: on a connected multi-endpoint client, list_tools(b) makes exactly one
\* call: the router's list_all_tools, with no positional argument and the
\* one keyword include_prefix = b; it resolves no sub-session, and when the
\* router returns, it returns the router's value as it is, for b true and
\* for b false.
C36_ListAllToolsOnce ==
    (result.op = "list_tools" /\ is_multi_client /\ is_connected) =>
        /\ Len(calls) = 1
        /\ calls[1].on = client
        /\ client[1] = "router"
        /\ calls[1].prim = "list_all_tools"
        /\ calls[1].args = <<>>
        /\ calls[1].kwargs = [k \in {"include_prefix"} |-> result.args[1]]
        /\ \A i \in DOMAIN calls : calls[i].prim # "get_client"
        /\ calls[1].outcome.kind = "ok" =>
              /\ result.kind = "return"
              /\ result.val = calls[1].outcome.ret

\* the router's non-empty list handed on by list_tools(False)
C36_Witness ==
    /\ result.op = "list_tools"
    /\ result.args = <<FALSE>>
    /\ is_multi_client
    /\ is_connected
    /\ result.kind = "return"
    /\ result.val = <<"list", <<"item">>>>
    /\ calls[1].kwargs["include_prefix"] = FALSE

\* the calls of the converter among the calls of an operation, and what
\* get_prompt handed to get_langchain_prompt: the empty mapping after a
\* resolution that found nothing, else what the handle's get_prompt returned
Conversions(cs) == {i \in DOMAIN cs : cs[i].prim = "convert_prompt_to_langchain"}
PromptReturned(cs) ==
    \/ ResolvedToNothing(cs)
    \/ \E i \in DOMAIN cs : cs[i].prim = "get_prompt" /\ cs[i].outcome.kind = "ok"
PromptData(cs) ==
    IF ResolvedToNothing(cs) THEN EmptyDict
    ELSE cs[CHOOSE i \in DOMAIN cs : cs[i].prim = "get_prompt"].outcome.ret

\* C38: get_langchain_prompt calls the converter at most once; when get_prompt
\* returned (a value of the handle, or the empty mapping after a resolution
\* that found nothing in multi-endpoint mode), it calls the converter exactly
\* once, as its last call, on that very value; and whenever it returns, it
\* returns the list of the one message the converter returned, never an
\* empty list.  It ends with an exception only where the guards, get_prompt
\* or the converter raised.
C38_OneConvertedMessage ==
    result.op = "get_langchain_prompt" =>
        /\ Cardinality(Conversions(calls)) <= 1
        /\ PromptReturned(calls) =>
              /\ Conversions(calls) = {Len(calls)}
              /\ calls[Len(calls)].on = Adapter
              /\ calls[Len(calls)].args = <<PromptData(calls)>>
        /\ ~PromptReturned(calls) =>
              /\ Conversions(calls) = {}
              /\ result.kind = "raise"
        /\ result.kind = "return" =>
              /\ PromptReturned(calls)
              /\ calls[Len(calls)].outcome.kind = "ok"
              /\ result.val = <<"list", <<calls[Len(calls)].outcome.ret>>>>
              /\ result.val # EmptyList
              /\ Len(result.val[2]) = 1
        /\ result.kind = "raise" =>
              \/ calls = <<>>
              \/ calls[Len(calls)].outcome.kind = "raise"

\* the router resolved the server name to nothing, get_prompt handed on the
\* empty mapping, and the converter's one message came back in a list
C38_Witness ==
    /\ result.op = "get_langchain_prompt"
    /\ is_multi_client
    /\ ResolvedToNothing(calls)
    /\ Len(calls) = 2
    /\ calls[2].prim = "convert_prompt_to_langchain"
    /\ calls[2].args = <<EmptyDict>>
    /\ result.kind = "return"
    /\ result.val = <<"list", <<calls[2].outcome.ret>>>>

\* C39: an add_tool whose code_type is not "python" does not run the body
\* through _compile_tool_code and hands no callable to the handle's add_tool.
C39_OnlyPythonInterpreted ==
    (result.op = "add_tool" /\ result.args[4] # "python") =>
        /\ compiles = 0
        /\ \A i \in DOMAIN calls : calls[i].prim # "add_tool"

====
